---------------------------- MODULE Spec2Model ----------------------------
(***************************************************************************)
(* travel-sync: the itinerary day-view projection of useItineraryItems     *)
(* (src/src/types/index.ts): the snapshot listener that fills `items`, the *)
(* expansion of multi-day lodging into one display item per day, the       *)
(* grouping by displayDay, the within-day sort and sortedDays.             *)
(*                                                                         *)
(* JavaScript strings are sequences of UTF-16 code units; an object is a   *)
(* function from its property names to their values, and an absent         *)
(* optional property is a name outside the DOMAIN.                         *)
(***************************************************************************)
EXTENDS Integers, Sequences, FiniteSets, TLC

(***************************************************************************)
(* Bounds of the exploration.                                              *)
(***************************************************************************)
\* calendar days of the trip that records may name
NumDays == 3
\* non-empty clock times that records may carry (besides the empty string)
NumTimes == 2
\* documents in the collection when every one of them touches FocusDay
MaxDocs == 2
\* documents in the collection when their fields are unrestricted
MaxAnyDocs == 1

(***************************************************************************)
(* Strings.                                                                *)
(***************************************************************************)
Digit(d) == 48 + d
Hyphen == 45
Colon == 58
EmptyStr == <<>>

\* a < b, a === b, a > b on strings: code unit by code unit, a proper prefix
\* first.  localeCompare agrees with it on the zero-padded dates and times
\* the application stores (digits in the same positions).
RECURSIVE localeCompare(_, _)
localeCompare(a, b) ==
  IF a = <<>> THEN (IF b = <<>> THEN 0 ELSE -1)
  ELSE IF b = <<>> THEN 1
  ELSE IF Head(a) < Head(b) THEN -1
  ELSE IF Head(a) > Head(b) THEN 1
  ELSE localeCompare(Tail(a), Tail(b))

StrLess(a, b) == localeCompare(a, b) < 0

\* String(n) for a natural number n
RECURSIVE NumberToString(_)
NumberToString(n) == IF n < 10 THEN <<Digit(n)>> ELSE NumberToString(n \div 10) \o <<Digit(n % 10)>>

\* s.padStart(2, '0')
padStart2(s) == IF Len(s) >= 2 THEN s ELSE <<Digit(0)>> \o s

\* the number written by a string of decimal digits
RECURSIVE ParseInt(_)
ParseInt(s) == IF s = <<>> THEN 0 ELSE 10 * ParseInt(SubSeq(s, 1, Len(s) - 1)) + (s[Len(s)] - 48)

(***************************************************************************)
(* Dates: a JavaScript Date at local noon is <<year, month (0-11), date>>. *)
(***************************************************************************)
IsLeapYear(y) == (y % 4 = 0 /\ y % 100 # 0) \/ y % 400 = 0

\* slip: February without its leap day
DaysInMonth_NoLeapDay(y, m0) ==
  IF m0 = 1 THEN 28
  ELSE IF m0 \in {3, 5, 8, 10} THEN 30 ELSE 31

DaysInMonth(y, m0) ==
  IF m0 = 1 THEN (IF IsLeapYear(y) THEN 29 ELSE 28)
  ELSE IF m0 \in {3, 5, 8, 10} THEN 30 ELSE 31

\* new Date(str + 'T12:00:00') for a well-formed YYYY-MM-DD string
NewDate(str) ==
  <<ParseInt(SubSeq(str, 1, 4)), ParseInt(SubSeq(str, 6, 7)) - 1, ParseInt(SubSeq(str, 9, 10))>>

\* current.setDate(current.getDate() + 1)
AddOneDay(date) ==
  IF date[3] + 1 <= DaysInMonth(date[1], date[2]) THEN <<date[1], date[2], date[3] + 1>>
  ELSE IF date[2] + 1 <= 11 THEN <<date[1], date[2] + 1, 1>>
  ELSE <<date[1] + 1, 0, 1>>

\* current <= end on two Dates at the same local time of day
DateLeq(a, b) ==
  \/ a[1] < b[1]
  \/ a[1] = b[1] /\ a[2] < b[2]
  \/ a[1] = b[1] /\ a[2] = b[2] /\ a[3] <= b[3]

formatLocalDate(date) ==
  NumberToString(date[1]) \o <<Hyphen>> \o padStart2(NumberToString(date[2] + 1))
    \o <<Hyphen>> \o padStart2(NumberToString(date[3]))

RECURSIVE DatesLoop(_, _)
DatesLoop(current, end) ==
  IF DateLeq(current, end)
  THEN <<formatLocalDate(current)>> \o DatesLoop(AddOneDay(current), end)
  ELSE <<>>

\* slip: do ... while, the start date pushed before the first test
getDatesBetween_StartAlways(startDate, endDate) ==
  <<formatLocalDate(NewDate(startDate))>> \o DatesLoop(AddOneDay(NewDate(startDate)), NewDate(endDate))

getDatesBetween(startDate, endDate) == DatesLoop(NewDate(startDate), NewDate(endDate))

(***************************************************************************)
(* The values records are drawn from.                                      *)
(***************************************************************************)
\* "YYYY-MM-DD" as the date input of the form writes it
IsoDate(y, m, d) ==
  NumberToString(y) \o <<Hyphen>> \o padStart2(NumberToString(m)) \o <<Hyphen>> \o padStart2(NumberToString(d))

\* the calendar around the trip: it crosses the leap day and the end of a month
Calendar ==
  <<IsoDate(2024, 2, 28), IsoDate(2024, 2, 29), IsoDate(2024, 3, 1), IsoDate(2024, 3, 2),
    IsoDate(2024, 3, 3)>>

\* the n-th day of the trip, n = 0, 1, ...
Day(n) == Calendar[n + 1]
Dates == {Day(n) : n \in 0 .. NumDays - 1}

\* "HH:MM"
Clock(h, m) == padStart2(NumberToString(h)) \o <<Colon>> \o padStart2(NumberToString(m))
ClockTimes == <<Clock(8, 0), Clock(15, 0), Clock(14, 0), Clock(16, 0), Clock(23, 59)>>
Times == {EmptyStr} \cup {ClockTimes[n] : n \in 1 .. NumTimes}

\* stored documents: type, day, time and completed are always written; the
\* optional fields are present or absent.  arrivalTime is a flight field; a
\* flight carries a category only as `lodging` (left by an edit of a lodging
\* activity into a flight, which toItemData does not clear).
Base == [type : {"activity", "flight"}, day : Dates, time : Times, completed : {FALSE}]
WithOptional(S, field, Values) == S \cup {(field :> v) @@ r : r \in S, v \in Values}
Records ==
  {r \in WithOptional(WithOptional(WithOptional(Base, "category", {"lodging", "food"}),
                                   "endDay", Dates),
                      "arrivalTime", Times \ {EmptyStr}) :
     /\ "arrivalTime" \in DOMAIN r => r.type = "flight"
     /\ r.type = "activity" => "category" \in DOMAIN r
     /\ (r.type = "flight" /\ "category" \in DOMAIN r) => r.category = "lodging"}


(***************************************************************************)
(* Property access.                                                        *)
(***************************************************************************)
Has(o, field) == field \in DOMAIN o
\* item.category === 'lodging'
IsLodging(item) == Has(item, "category") /\ item.category = "lodging"
\* item.lodgingPhase === phase
PhaseIs(item, phase) == Has(item, "lodgingPhase") /\ item.lodgingPhase = phase
\* item.arrivalTime || item.time
LandingTime(item) ==
  IF Has(item, "arrivalTime") /\ item.arrivalTime # EmptyStr THEN item.arrivalTime ELSE item.time

(***************************************************************************)
(* Array.prototype.sort(compare): stable, ascending by compare.            *)
(***************************************************************************)
\* `compare` is the comparator tabulated on the positions of the array:
\* compare[i, j] is the callback's result for (arr[i], arr[j]).
\* an unstable sort: an element is put before the ones it compares equal to
RECURSIVE InsertSorted_BeforeEqual(_, _, _)
InsertSorted_BeforeEqual(sorted, x, compare) ==
  IF sorted = <<>> THEN <<x>>
  ELSE IF compare[Head(sorted), x] >= 0 THEN <<x>> \o sorted
  ELSE <<Head(sorted)>> \o InsertSorted_BeforeEqual(Tail(sorted), x, compare)

RECURSIVE InsertSorted(_, _, _)
InsertSorted(sorted, x, compare) ==
  IF sorted = <<>> THEN <<x>>
  ELSE IF compare[Head(sorted), x] > 0 THEN <<x>> \o sorted
  ELSE <<Head(sorted)>> \o InsertSorted(Tail(sorted), x, compare)

\* the positions 1 .. n of the array in their sorted order
RECURSIVE SortedOrder(_, _)
SortedOrder(n, compare) ==
  IF n = 0 THEN <<>> ELSE InsertSorted(SortedOrder(n - 1, compare), n, compare)

ArraySort(arr, compare) ==
  LET order == SortedOrder(Len(arr), compare) IN [k \in 1 .. Len(arr) |-> arr[order[k]]]

(***************************************************************************)
(* expandLodgingItems                                                      *)
(***************************************************************************)
\* slip: the comparison of endDay with day left out
isMultiDayLodging_AnyEndDay(item) ==
  IsLodging(item) /\ Has(item, "endDay") /\ item.endDay # EmptyStr

isMultiDayLodging(item) ==
  IsLodging(item) /\ Has(item, "endDay") /\ item.endDay # EmptyStr /\ item.endDay # item.day

\* slip: the last index taken for the length
lodgingPhaseAt_LastAsLength(index, length) ==
  IF index = 0 THEN "check-in"
  ELSE IF index = length THEN "check-out"
  ELSE "staying"

lodgingPhaseAt(index, length) ==
  IF index = 0 THEN "check-in"
  ELSE IF index = length - 1 THEN "check-out"
  ELSE "staying"

\* slip: every display item of a stay flagged virtual
isVirtualAt_Always(index) == TRUE

\* isVirtual of the display item at a 0-based index of the stay
isVirtualAt(index) == index # 0

\* slip: every display item of a stay left on the record's day
expandItem_OnRecordDay(item) ==
  IF isMultiDayLodging(item)
  THEN LET stayDates == getDatesBetween(item.day, item.endDay)
       IN [i \in 1 .. Len(stayDates) |->
             [displayDay |-> item.day,
              lodgingPhase |-> lodgingPhaseAt(i - 1, Len(stayDates)),
              isVirtual |-> isVirtualAt(i - 1)] @@ item]
  ELSE <<[displayDay |-> item.day, isVirtual |-> FALSE] @@ item>>

\* the display items pushed for one record, in push order
expandItem(item) ==
  IF isMultiDayLodging(item)
  THEN LET stayDates == getDatesBetween(item.day, item.endDay)
       IN [i \in 1 .. Len(stayDates) |->
             [displayDay |-> stayDates[i],
              lodgingPhase |-> lodgingPhaseAt(i - 1, Len(stayDates)),
              isVirtual |-> isVirtualAt(i - 1)] @@ item]
  ELSE <<[displayDay |-> item.day, isVirtual |-> FALSE] @@ item>>

RECURSIVE expandLodgingItems(_)
expandLodgingItems(its) ==
  IF its = <<>> THEN <<>> ELSE expandItem(Head(its)) \o expandLodgingItems(Tail(its))

(***************************************************************************)
(* Grouping by displayDay.  A JavaScript object keeps its string keys in   *)
(* insertion order: `grouped` is the sequence of its [day, list] entries.  *)
(***************************************************************************)
Keys(grouped) == [i \in 1 .. Len(grouped) |-> grouped[i].day]
KeySet(grouped) == {grouped[i].day : i \in 1 .. Len(grouped)}
\* grouped[day]
ListOf(grouped, day) ==
  LET i == CHOOSE i \in 1 .. Len(grouped) : grouped[i].day = day IN grouped[i].list

\* slip: the day's list replaced by the new item instead of extended
groupPush_Replace(acc, item) ==
  IF item.displayDay \in KeySet(acc)
  THEN [i \in 1 .. Len(acc) |->
          IF acc[i].day = item.displayDay
          THEN [day |-> acc[i].day, list |-> <<item>>]
          ELSE acc[i]]
  ELSE Append(acc, [day |-> item.displayDay, list |-> <<item>>])

groupPush(acc, item) ==
  IF item.displayDay \in KeySet(acc)
  THEN [i \in 1 .. Len(acc) |->
          IF acc[i].day = item.displayDay
          THEN [day |-> acc[i].day, list |-> Append(acc[i].list, item)]
          ELSE acc[i]]
  ELSE Append(acc, [day |-> item.displayDay, list |-> <<item>>])

RECURSIVE groupReduce(_, _)
groupReduce(acc, displayItems) ==
  IF displayItems = <<>> THEN acc
  ELSE groupReduce(groupPush(acc, Head(displayItems)), Tail(displayItems))

(***************************************************************************)
(* Within-day sort.                                                        *)
(***************************************************************************)
DefaultCheckInTime == <<Digit(2), Digit(3), Colon, Digit(5), Digit(9)>>

\* slip: the default kept for a day without check-in item only (?? for ||)
checkInTimeOf_EmptyKept(dayItems) ==
  LET found == {i \in 1 .. Len(dayItems) : PhaseIs(dayItems[i], "check-in")}
  IN IF found = {} THEN DefaultCheckInTime
     ELSE dayItems[CHOOSE i \in found : \A j \in found : i <= j].time

\* dayItems.find(item => item.lodgingPhase === 'check-in')?.time || '23:59'
checkInTimeOf(dayItems) ==
  LET found == {i \in 1 .. Len(dayItems) : PhaseIs(dayItems[i], "check-in")}
  IN IF found = {} THEN DefaultCheckInTime
     ELSE LET checkInItem == dayItems[CHOOSE i \in found : \A j \in found : i <= j]
          IN IF checkInItem.time # EmptyStr THEN checkInItem.time ELSE DefaultCheckInTime

\* slip: a landing at the check-in time itself counted as before check-in
getSortPriority_AtOrBefore(item, checkInTime) ==
  IF PhaseIs(item, "check-out") THEN 0
  ELSE IF item.type = "flight" /\ ~StrLess(checkInTime, LandingTime(item)) THEN 1
  ELSE IF PhaseIs(item, "check-in") THEN 2
  ELSE IF PhaseIs(item, "staying") THEN 4
  ELSE 3

getSortPriority(item, checkInTime) ==
  IF PhaseIs(item, "check-out") THEN 0
  ELSE IF item.type = "flight" /\ StrLess(LandingTime(item), checkInTime) THEN 1
  ELSE IF PhaseIs(item, "check-in") THEN 2
  ELSE IF PhaseIs(item, "staying") THEN 4
  ELSE 3

\* slip: the departure time of a flight taken for its place in the bucket
sortTime_DepartureTime(item) == item.time

\* aTime / bTime of the comparator
sortTime(item) == IF item.type = "flight" THEN LandingTime(item) ELSE item.time

\* slip: within a bucket an item without a time put after the timed ones
dayCompare_EmptyTimeLast(a, b, checkInTime) ==
  LET aPriority == getSortPriority(a, checkInTime)
      bPriority == getSortPriority(b, checkInTime)
  IN IF aPriority = bPriority
     THEN IF (sortTime(a) = EmptyStr) # (sortTime(b) = EmptyStr)
          THEN (IF sortTime(a) = EmptyStr THEN 1 ELSE -1)
          ELSE localeCompare(sortTime(a), sortTime(b))
     ELSE aPriority - bPriority

dayCompare(a, b, checkInTime) ==
  LET aPriority == getSortPriority(a, checkInTime)
      bPriority == getSortPriority(b, checkInTime)
  IN IF aPriority = bPriority THEN localeCompare(sortTime(a), sortTime(b))
     ELSE aPriority - bPriority

\* slip: the items that are done moved behind the others of the day
sortDay_CompletedLast(dayItems) ==
  LET checkInTime == checkInTimeOf(dayItems)
      n == Len(dayItems)
  IN ArraySort(dayItems,
               [a \in 1 .. n, b \in 1 .. n |->
                  IF dayItems[a].completed # dayItems[b].completed
                  THEN (IF dayItems[a].completed THEN 1 ELSE -1)
                  ELSE dayCompare(dayItems[a], dayItems[b], checkInTime)])

sortDay(dayItems) ==
  LET checkInTime == checkInTimeOf(dayItems)
      n == Len(dayItems)
  IN ArraySort(dayItems,
               [a \in 1 .. n, b \in 1 .. n |-> dayCompare(dayItems[a], dayItems[b], checkInTime)])

\* the useMemo that computes itemsByDay from items
computeItemsByDay(its) ==
  LET displayItems == expandLodgingItems(its)
      grouped == groupReduce(<<>>, displayItems)
  IN [i \in 1 .. Len(grouped) |-> [day |-> grouped[i].day, list |-> sortDay(grouped[i].list)]]

\* slip: the days sorted latest first
computeSortedDays_Descending(grouped) ==
  LET keys == Keys(grouped)
      n == Len(keys)
  IN ArraySort(keys, [a \in 1 .. n, b \in 1 .. n |-> localeCompare(keys[b], keys[a])])

\* Object.keys(itemsByDay).sort()
computeSortedDays(grouped) ==
  LET keys == Keys(grouped)
      n == Len(keys)
  IN ArraySort(keys, [a \in 1 .. n, b \in 1 .. n |-> localeCompare(keys[a], keys[b])])

(***************************************************************************)
(* The same computation with object identity.  `objects` is the heap: the  *)
(* address of an object is its position; an array is the sequence of the   *)
(* addresses of its elements.  A run of the itemsByDay useMemo starts with *)
(* the objects of the records and the array `items`, and ends with the     *)
(* objects it has added, `items` as the run left it, and the grouped       *)
(* arrays.                                                                 *)
(***************************************************************************)
\* the memory after setItems(itineraryItems)
recordsHeap(its) == [objects |-> its, items |-> [k \in 1 .. Len(its) |-> k]]

\* slip: the derived fields assigned to the record itself, which is pushed
pushDisplayItem_Assigned(run, item, derived) ==
  [run EXCEPT !.objects = [@ EXCEPT ![item] = derived @@ @],
              !.displayItems = Append(@, item)]

\* displayItems.push({ ...item, <derived fields> }): the object literal is a
\* new object
pushDisplayItem(run, item, derived) ==
  [run EXCEPT !.objects = Append(@, derived @@ run.objects[item]),
              !.displayItems = Append(@, Len(run.objects) + 1)]

\* stayDates.forEach((date, index) => ...) from index on
RECURSIVE pushStay(_, _, _, _)
pushStay(run, item, stayDates, index) ==
  IF index >= Len(stayDates) THEN run
  ELSE pushStay(pushDisplayItem(run, item,
                                [displayDay |-> stayDates[index + 1],
                                 lodgingPhase |-> lodgingPhaseAt(index, Len(stayDates)),
                                 isVirtual |-> isVirtualAt(index)]),
                item, stayDates, index + 1)

\* slip: the loop takes the records off the array (items.shift())
itemsAfterLoop_Shifted(array) == <<>>

\* for (const item of items): the array after the loop has visited it
itemsAfterLoop(array) == array

\* the loop of expandLodgingItems over the addresses still to visit
RECURSIVE expandRun(_, _)
expandRun(run, toVisit) ==
  IF toVisit = <<>> THEN [run EXCEPT !.items = itemsAfterLoop(@)]
  ELSE LET item == Head(toVisit)
           record == run.objects[item]
       IN expandRun(IF isMultiDayLodging(record)
                    THEN pushStay(run, item, getDatesBetween(record.day, record.endDay), 0)
                    ELSE pushDisplayItem(run, item,
                                         [displayDay |-> record.day, isVirtual |-> FALSE]),
                    Tail(toVisit))

\* the reduce that groups the addresses of the display items by displayDay
RECURSIVE groupRun(_, _, _)
groupRun(acc, objects, displayItems) ==
  IF displayItems = <<>> THEN acc
  ELSE LET item == Head(displayItems)
           day == objects[item].displayDay
       IN groupRun(IF day \in KeySet(acc)
                   THEN [i \in 1 .. Len(acc) |->
                           IF acc[i].day = day
                           THEN [day |-> day, list |-> Append(acc[i].list, item)]
                           ELSE acc[i]]
                   ELSE Append(acc, [day |-> day, list |-> <<item>>]),
                   objects, Tail(displayItems))

\* grouped[day].sort(...) on an array of addresses
sortDayRun(objects, dayItems) ==
  LET n == Len(dayItems)
      checkInTime == checkInTimeOf([k \in 1 .. n |-> objects[dayItems[k]]])
  IN ArraySort(dayItems,
               [a \in 1 .. n, b \in 1 .. n |->
                  dayCompare(objects[dayItems[a]], objects[dayItems[b]], checkInTime)])

\* one run of the useMemo on the memory [objects, items]
memoRun(memory) ==
  LET expanded == expandRun([objects |-> memory.objects, items |-> memory.items,
                             displayItems |-> <<>>],
                            memory.items)
      grouped == groupRun(<<>>, expanded.objects, expanded.displayItems)
  IN [objects |-> expanded.objects,
      items |-> expanded.items,
      itemsByDay |-> [i \in 1 .. Len(grouped) |->
                        [day |-> grouped[i].day,
                         list |-> sortDayRun(expanded.objects, grouped[i].list)]]]

\* the grouped arrays with the objects in the place of their addresses
Deref(objects, grouped) ==
  [i \in 1 .. Len(grouped) |->
     [day |-> grouped[i].day,
      list |-> [k \in 1 .. Len(grouped[i].list) |-> objects[grouped[i].list[k]]]]]

(***************************************************************************)
(* The hook's state.                                                       *)
(***************************************************************************)
VARIABLES
  docs,         \* the itinerary collection: [id, data] documents in snapshot.docs order
  listening,    \* the onSnapshot listener is attached and has not failed
  isFirstLoad,  \* the flag of the subscription effect
  items,        \* useState: the records of the last snapshot, sorted by day and time
  isLoading,    \* useState
  error,        \* useState: "null" or the message
  itemsByDay,   \* useMemo: the [day, list] entries of the grouped object
  sortedDays,   \* useMemo
  form,         \* useItineraryForm: the form state
  editingItem,  \* useItineraryForm: <<>> for null, <<item>> for the item being edited
  showAddModal, \* ItineraryManager: the add/edit modal is open
  lastWrite,    \* <<call>> when the step that led here called the store, else <<>>
  startDate,    \* getDatesBetween: its first argument
  endDate,      \* getDatesBetween: its second argument
  dates,        \* getDatesBetween: <<>> before the call, <<the array returned>> after it
  placeItems,   \* usePlaceEnrichment: the items prop, a function from the ids to the items
  created,      \* the number of items created in the collection so far (ids 1 .. created)
  enrichingRef, \* usePlaceEnrichment: enrichingRef.current
  processedRef, \* usePlaceEnrichment: processedRef.current
  timers,       \* pending setTimeout callbacks of the scheduling effect, counted per item id
  running,      \* calls of enrichItem past the guard, per item id: those awaiting the
                \* lookup and those awaiting onUpdateItem
  now,          \* Date.now(), in milliseconds
  started,      \* lookups started per item id since processedRef was last cleared
  failed,       \* ids whose lookup or update failed since processedRef was last cleared
  lastStarted,  \* <<id>> when the step that led here started a lookup for id, else <<>>
  isSubmitting, \* ItineraryManager: useState
  submission,   \* the call of handleSubmit that awaits: <<>> or <<[at, itemData, editing]>>
  lastSubmit    \* <<how the last call of handleSubmit ended>>, <<>> before the first

vars == <<docs, listening, isFirstLoad, items, isLoading, error, itemsByDay, sortedDays,
          form, editingItem, showAddModal, lastWrite, startDate, endDate, dates,
          placeItems, created, enrichingRef, processedRef, timers, running, now, started,
          failed, lastStarted, isSubmitting, submission, lastSubmit>>

dateVars == <<startDate, endDate, dates>>
enrichVars ==
  <<placeItems, created, enrichingRef, processedRef, timers, running, now, started, failed,
    lastStarted>>

\* handleSubmit and its isSubmitting
submitVars == <<isSubmitting, submission, lastSubmit>>

\* the state that the hook, the list view and the form do not touch
offstage == <<dateVars, enrichVars, submitVars>>

\* const INITIAL_FORM_STATE
INITIAL_FORM_STATE ==
  [type |-> "activity", day |-> EmptyStr, endDay |-> EmptyStr, time |-> EmptyStr,
   location |-> EmptyStr, notes |-> EmptyStr, category |-> "sightseeing",
   googleMapsLink |-> EmptyStr, lat |-> EmptyStr, lng |-> EmptyStr,
   arrivalLocation |-> EmptyStr, arrivalTime |-> EmptyStr, airline |-> EmptyStr,
   flightNumber |-> EmptyStr, departureAirportCode |-> EmptyStr,
   departureAirportName |-> EmptyStr, arrivalAirportCode |-> EmptyStr,
   arrivalAirportName |-> EmptyStr, arrivalLat |-> EmptyStr, arrivalLng |-> EmptyStr,
   flightValidated |-> FALSE, flightValidationSource |-> "none"]

\* the steps of the hook leave the form and the modal alone and call no store
\* function
NoFormStep ==
  lastWrite' = <<>> /\ UNCHANGED <<form, editingItem, showAddModal>> /\ UNCHANGED offstage

\* the day on which the check-out, check-in and staying items of different
\* stays can meet
FocusDay == Day(1)

\* records that put a display item on FocusDay: a multi-day stay around it,
\* or a single-day record on it (lodging of one day included); and the
\* lodging records whose endDay is earlier than their day (the form lets the day be moved behind the endDay)
DayRecords ==
  {r \in Records :
     IF IsLodging(r)
     THEN \/ /\ Has(r, "endDay")
             /\ \/ /\ StrLess(r.day, r.endDay)
                   /\ ~StrLess(FocusDay, r.day)
                   /\ ~StrLess(r.endDay, FocusDay)
                \/ StrLess(r.endDay, r.day)
          \/ /\ r.day = FocusDay
             /\ ~Has(r, "endDay") \/ r.endDay = r.day
     ELSE r.day = FocusDay /\ ~Has(r, "endDay")}

DocIds == 1 .. (IF MaxDocs >= MaxAnyDocs THEN MaxDocs ELSE MaxAnyDocs)

\* the records the exploration may add to a collection
Addable(ds) ==
  IF Len(ds) + 1 <= MaxAnyDocs THEN Records
  ELSE IF Len(ds) + 1 <= MaxDocs /\ \A i \in 1 .. Len(ds) : ds[i].data \in DayRecords
       THEN DayRecords
       ELSE {}

FreeIds(ds) == DocIds \ {ds[i].id : i \in 1 .. Len(ds)}

\* slip: the fields of the item already held for the document are kept
docToItem_KeepsHeld(docSnap) ==
  LET held == {n \in 1 .. Len(items) : items[n].id = docSnap.id}
  IN IF held = {} THEN docSnap.data @@ [id |-> docSnap.id]
     ELSE items[CHOOSE n \in held : TRUE] @@ docSnap.data

\* ({ id: docSnap.id, ...docSnap.data() })
docToItem(docSnap) == docSnap.data @@ [id |-> docSnap.id]

\* slip: the records of a day left in document order
snapshotCompare_DayOnly(a, b) == localeCompare(a.day, b.day)

\* the comparator of itineraryItems.sort
snapshotCompare(a, b) ==
  IF a.day # b.day THEN localeCompare(a.day, b.day) ELSE localeCompare(a.time, b.time)

\* slip: the items left in the order of the documents
sortSnapshot_DocumentOrder(itineraryItems) == itineraryItems

sortSnapshot(itineraryItems) ==
  LET n == Len(itineraryItems)
  IN ArraySort(itineraryItems,
               [a \in 1 .. n, b \in 1 .. n |-> snapshotCompare(itineraryItems[a], itineraryItems[b])])

\* the whole projection of a snapshot
projectItems(snapshotDocs) ==
  sortSnapshot([i \in 1 .. Len(snapshotDocs) |-> docToItem(snapshotDocs[i])])

\* item ids of the collection usePlaceEnrichment is explored with
MaxEnrichIds == 3
EnrichIds == 1 .. MaxEnrichIds

\* usePlaceEnrichment as it is mounted: no item yet, both refs empty sets
EnrichMounted ==
  /\ placeItems = <<>>
  /\ created = 0
  /\ enrichingRef = {}
  /\ processedRef = {}
  /\ timers = [id \in EnrichIds |-> 0]
  /\ running = [id \in EnrichIds |-> [lookup |-> 0, update |-> 0]]
  /\ now = 1
  /\ started = [id \in EnrichIds |-> 0]
  /\ failed = {}
  /\ lastStarted = <<>>

\* the hook and the form as they are mounted
Mounted ==
  /\ docs = <<>>
  /\ listening = TRUE
  /\ isFirstLoad = TRUE
  /\ items = <<>>
  /\ isLoading = TRUE
  /\ error = "null"
  /\ itemsByDay = <<>>
  /\ sortedDays = <<>>
  /\ form = INITIAL_FORM_STATE
  /\ editingItem = <<>>
  /\ showAddModal = FALSE
  /\ lastWrite = <<>>
  /\ isSubmitting = FALSE
  /\ submission = <<>>
  /\ lastSubmit = <<>>

Init ==
  /\ Mounted
  /\ EnrichMounted
  /\ startDate = Day(0)
  /\ endDate = Day(0)
  /\ dates = <<>>

\* the listener's success callback, and the render that follows setItems
OnSnapshot(snapshotDocs) ==
  /\ listening
  /\ docs' = snapshotDocs
  /\ items' = projectItems(snapshotDocs)
  /\ isLoading' = IF isFirstLoad THEN FALSE ELSE isLoading
  /\ isFirstLoad' = FALSE
  /\ itemsByDay' = computeItemsByDay(items')
  /\ sortedDays' = computeSortedDays(itemsByDay')
  /\ UNCHANGED <<listening, error>>

\* the first snapshot of the collection as it is
FirstSnapshot == isFirstLoad /\ OnSnapshot(docs) /\ NoFormStep

\* a document is added (addDoc, here or by another member of the trip); the
\* store orders snapshot.docs by document id
StoreAdd(id, data) ==
  LET before == SelectSeq(docs, LAMBDA d : d.id < id)
      after == SelectSeq(docs, LAMBDA d : d.id > id)
      added == before \o <<[id |-> id, data |-> data]>> \o after
  IN OnSnapshot(added) /\ NoFormStep

\* a document is deleted (deleteDoc)
StoreDelete(id) ==
  OnSnapshot(SelectSeq(docs, LAMBDA d : d.id # id)) /\ NoFormStep

\* the error callback as it would be if it emptied the list
OnSnapshotError_ClearsItems ==
  /\ listening
  /\ error' = "Failed to load itinerary"
  /\ isLoading' = FALSE
  /\ listening' = FALSE
  /\ items' = <<>>
  /\ itemsByDay' = <<>>
  /\ sortedDays' = <<>>
  /\ UNCHANGED <<docs, isFirstLoad>>
  /\ NoFormStep

\* the listener's error callback
OnSnapshotError ==
  /\ listening
  /\ error' = "Failed to load itinerary"
  /\ isLoading' = FALSE
  /\ listening' = FALSE
  /\ UNCHANGED <<docs, isFirstLoad, items, itemsByDay, sortedDays>>
  /\ NoFormStep

Next ==
  \/ FirstSnapshot
  \/ \E id \in FreeIds(docs), data \in Addable(docs) : StoreAdd(id, data)
  \/ \E i \in 1 .. Len(docs) : StoreDelete(docs[i].id)
  \/ OnSnapshotError

Spec == Init /\ [][Next]_vars

(***************************************************************************)
(* The list view and the add/edit form: ItineraryManager with              *)
(* useItineraryForm, on a collection of at most MaxFormDocs documents.     *)
(***************************************************************************)
\* documents in the collection while the form is explored
MaxFormDocs == 1

hookVars == <<docs, listening, isFirstLoad, items, isLoading, error, itemsByDay, sortedDays>>

\* trip.startDate
TripStartDate == Day(0)
\* "TLV", a location the user types
SomeLocation == <<84, 76, 86>>

\* the values the user gives to the fields of the form
FormDays == {EmptyStr, Day(0), Day(1)}
FormEndDays == {EmptyStr, Day(0), Day(2)}
FormTimes == {EmptyStr, Clock(8, 0)}
FormLocations == {EmptyStr, SomeLocation}
FormCategories == {"sightseeing", "lodging"}
FormArrivalTimes == {EmptyStr, Clock(15, 0)}

\* an item as the AI generation writes it, added by another member of the trip
FormSeeds ==
  {[type |-> "activity", day |-> Day(0), time |-> Clock(8, 0), location |-> SomeLocation,
    notes |-> EmptyStr, category |-> "food", completed |-> FALSE]}

\* String.prototype.toUpperCase on ASCII letters
toUpperCase(str) == [k \in 1 .. Len(str) |-> IF str[k] \in 97 .. 122 THEN str[k] - 32 ELSE str[k]]

\* item.field || '' for an optional string property
OrEmpty(item, field) == IF Has(item, field) THEN item[field] ELSE EmptyStr
\* item.field?.toString() || '' for an optional number property
NumberOrEmpty(item, field) == IF Has(item, field) THEN NumberToString(item[field]) ELSE EmptyStr

\* the form that populateFromItem sets for an item
populatedForm(item) ==
  [type |-> item.type,
   day |-> item.day,
   endDay |-> OrEmpty(item, "endDay"),
   time |-> item.time,
   location |-> item.location,
   notes |-> OrEmpty(item, "notes"),
   category |-> IF Has(item, "category") THEN item.category ELSE "sightseeing",
   googleMapsLink |-> OrEmpty(item, "googleMapsLink"),
   lat |-> NumberOrEmpty(item, "lat"),
   lng |-> NumberOrEmpty(item, "lng"),
   arrivalLocation |-> OrEmpty(item, "arrivalLocation"),
   arrivalTime |-> OrEmpty(item, "arrivalTime"),
   airline |-> OrEmpty(item, "airline"),
   flightNumber |-> OrEmpty(item, "flightNumber"),
   departureAirportCode |-> OrEmpty(item, "departureAirportCode"),
   departureAirportName |-> OrEmpty(item, "departureAirportName"),
   arrivalAirportCode |-> OrEmpty(item, "arrivalAirportCode"),
   arrivalAirportName |-> OrEmpty(item, "arrivalAirportName"),
   arrivalLat |-> NumberOrEmpty(item, "arrivalLat"),
   arrivalLng |-> NumberOrEmpty(item, "arrivalLng"),
   flightValidated |-> IF Has(item, "flightValidated") THEN item.flightValidated ELSE FALSE,
   flightValidationSource |->
     IF Has(item, "flightValidationSource") THEN item.flightValidationSource ELSE "none"]

\* the properties an `if` adds to itemData or leaves out
When(condition, properties) == IF condition THEN properties ELSE <<>>

\* slip: the endDay of the form kept for every activity
toItemData_EndDayAnyCategory(f, editing) ==
  LET base == [type |-> f.type, day |-> f.day, time |-> f.time, location |-> f.location,
               notes |-> f.notes,
               completed |-> IF editing # <<>> THEN editing[1].completed ELSE FALSE]
      coords == When(f.lat # EmptyStr /\ f.lng # EmptyStr,
                     [lat |-> ParseInt(f.lat), lng |-> ParseInt(f.lng)])
      keepsEndDay == f.endDay # EmptyStr
  IN IF f.type = "activity"
     THEN [data |-> When(keepsEndDay, [endDay |-> f.endDay])
                      @@ [category |-> f.category, googleMapsLink |-> f.googleMapsLink]
                      @@ coords @@ base,
           undefined |-> IF keepsEndDay THEN {} ELSE {"endDay"}]
     ELSE [data |-> [arrivalLocation |-> f.arrivalLocation, arrivalTime |-> f.arrivalTime,
                     airline |-> f.airline, flightNumber |-> f.flightNumber,
                     flightValidated |-> f.flightValidated,
                     flightValidationSource |-> f.flightValidationSource]
                      @@ When(f.departureAirportCode # EmptyStr,
                              [departureAirportCode |-> f.departureAirportCode,
                               departureAirportName |-> f.departureAirportName])
                      @@ When(f.arrivalAirportCode # EmptyStr,
                              [arrivalAirportCode |-> f.arrivalAirportCode,
                               arrivalAirportName |-> f.arrivalAirportName])
                      @@ When(f.arrivalLat # EmptyStr /\ f.arrivalLng # EmptyStr,
                              [arrivalLat |-> ParseInt(f.arrivalLat),
                               arrivalLng |-> ParseInt(f.arrivalLng)])
                      @@ coords @@ base,
           undefined |-> {}]

\* toItemData(): `data` holds the properties with a value, `undefined` the
\* names of the properties set to undefined
toItemData(f, editing) ==
  LET base == [type |-> f.type, day |-> f.day, time |-> f.time, location |-> f.location,
               notes |-> f.notes,
               completed |-> IF editing # <<>> THEN editing[1].completed ELSE FALSE]
      coords == When(f.lat # EmptyStr /\ f.lng # EmptyStr,
                     [lat |-> ParseInt(f.lat), lng |-> ParseInt(f.lng)])
      keepsEndDay == f.category = "lodging" /\ f.endDay # EmptyStr
  IN IF f.type = "activity"
     THEN [data |-> When(keepsEndDay, [endDay |-> f.endDay])
                      @@ [category |-> f.category, googleMapsLink |-> f.googleMapsLink]
                      @@ coords @@ base,
           undefined |-> IF keepsEndDay THEN {} ELSE {"endDay"}]
     ELSE [data |-> [arrivalLocation |-> f.arrivalLocation, arrivalTime |-> f.arrivalTime,
                     airline |-> f.airline, flightNumber |-> f.flightNumber,
                     flightValidated |-> f.flightValidated,
                     flightValidationSource |-> f.flightValidationSource]
                      @@ When(f.departureAirportCode # EmptyStr,
                              [departureAirportCode |-> f.departureAirportCode,
                               departureAirportName |-> f.departureAirportName])
                      @@ When(f.arrivalAirportCode # EmptyStr,
                              [arrivalAirportCode |-> f.arrivalAirportCode,
                               arrivalAirportName |-> f.arrivalAirportName])
                      @@ When(f.arrivalLat # EmptyStr /\ f.arrivalLng # EmptyStr,
                              [arrivalLat |-> ParseInt(f.arrivalLat),
                               arrivalLng |-> ParseInt(f.arrivalLng)])
                      @@ coords @@ base,
           undefined |-> {}]

\* const isValid = Boolean(form.day && form.location)
isValid(f) == f.day # EmptyStr /\ f.location # EmptyStr

\* the display items of the list view
ShownItems ==
  UNION {{itemsByDay[e].list[n] : n \in 1 .. Len(itemsByDay[e].list)} : e \in 1 .. Len(itemsByDay)}

DocExists(id) == \E k \in 1 .. Len(docs) : docs[k].id = id

\* the store refuses a write that holds an undefined value (getFirestore
\* without ignoreUndefinedProperties) and an update of a document that does
\* not exist
Refused(write) ==
  \/ write.undefined # {}
  \/ write.fn = "updateDoc" /\ ~DocExists(write.id)

\* the collection after a write the store has taken: updateDoc merges the
\* properties into the document, addDoc creates the document, deleteDoc
\* removes it
Written(write) ==
  CASE write.fn = "updateDoc" ->
         [k \in 1 .. Len(docs) |->
            IF docs[k].id = write.id
            THEN [id |-> docs[k].id, data |-> write.data @@ docs[k].data]
            ELSE docs[k]]
    [] write.fn = "addDoc" ->
         SelectSeq(docs, LAMBDA d : d.id < write.id)
           \o <<[id |-> write.id, data |-> write.data]>>
           \o SelectSeq(docs, LAMBDA d : d.id > write.id)
    [] write.fn = "deleteDoc" -> SelectSeq(docs, LAMBDA d : d.id # write.id)

\* the listener, while it is attached, is called with the collection as
\* written
Delivered(write) ==
  IF listening THEN OnSnapshot(Written(write)) ELSE UNCHANGED hookVars

\* openAddModal: resetForm(trip.startDate), setShowAddModal(true)
openAddModal ==
  /\ UNCHANGED offstage
  /\ ~showAddModal
  /\ form' = [INITIAL_FORM_STATE EXCEPT !.day = TripStartDate]
  /\ editingItem' = <<>>
  /\ showAddModal' = TRUE
  /\ lastWrite' = <<>>
  /\ UNCHANGED hookVars

\* openEditModal(item), the onEdit of a card: populateFromItem(item),
\* setShowAddModal(true)
openEditModal(item) ==
  /\ UNCHANGED offstage
  /\ ~showAddModal
  /\ editingItem' = <<item>>
  /\ form' = populatedForm(item)
  /\ showAddModal' = TRUE
  /\ lastWrite' = <<>>
  /\ UNCHANGED hookVars

\* closeAddModal: setShowAddModal(false), resetForm()
closeAddModal ==
  /\ UNCHANGED offstage
  /\ showAddModal
  /\ showAddModal' = FALSE
  /\ form' = INITIAL_FORM_STATE
  /\ editingItem' = <<>>
  /\ lastWrite' = <<>>
  /\ UNCHANGED hookVars

\* the inputs of the modal that call onSetField, with the fields they are
\* shown for
setField(field, value) ==
  /\ UNCHANGED offstage
  /\ showAddModal
  /\ CASE field = "type" -> value \in {"activity", "flight"}
       [] field = "day" -> value \in FormDays
       [] field = "endDay" ->
            /\ form.type = "activity" /\ form.category = "lodging"
            /\ value \in FormEndDays
            \* min={form.day}: the date picker offers no earlier day
            /\ value = EmptyStr \/ ~StrLess(value, form.day)
       [] field = "time" -> value \in FormTimes
       [] field = "location" ->
            \E typed \in FormLocations :
              value = IF form.type = "flight" THEN toUpperCase(typed) ELSE typed
       [] field = "category" -> form.type = "activity" /\ value \in FormCategories
       [] field = "arrivalTime" -> form.type = "flight" /\ value \in FormArrivalTimes
  /\ form[field] # value
  /\ form' = [form EXCEPT ![field] = value]
  /\ lastWrite' = <<>>
  /\ UNCHANGED <<editingItem, showAddModal>>
  /\ UNCHANGED hookVars

\* the values each input of the modal can take
FieldValues ==
  [type |-> {"activity", "flight"}, day |-> FormDays, endDay |-> FormEndDays,
   time |-> FormTimes, location |-> FormLocations, category |-> FormCategories,
   arrivalTime |-> FormArrivalTimes]

\* handleSubmit: updateItem(editingItem.id, toItemData()) or
\* addItem(toItemData()), then closeAddModal(); a refused write leaves the
\* modal open.  The place enrichment needs a googleMapsLink, which no form
\* explored here has.
handleSubmit ==
  /\ UNCHANGED offstage
  /\ showAddModal
  /\ isValid(form)
  /\ \E id \in IF editingItem # <<>> THEN {editingItem[1].id}
                ELSE (1 .. MaxFormDocs) \ {docs[k].id : k \in 1 .. Len(docs)} :
       LET itemData == toItemData(form, editingItem)
           write == [fn |-> IF editingItem # <<>> THEN "updateDoc" ELSE "addDoc",
                     by |-> "handleSubmit", id |-> id, item |-> editingItem,
                     data |-> itemData.data, undefined |-> itemData.undefined]
       IN /\ lastWrite' = <<write>>
          /\ IF Refused(write)
             THEN UNCHANGED <<form, editingItem, showAddModal>> /\ UNCHANGED hookVars
             ELSE /\ showAddModal' = FALSE
                  /\ form' = INITIAL_FORM_STATE
                  /\ editingItem' = <<>>
                  /\ Delivered(write)

\* slip: the item sent back with the flag turned
toggleData_WholeItem(item) == [completed |-> ~item.completed] @@ item

\* { completed: !item.completed }
toggleData(item) == [completed |-> ~item.completed]

\* toggleComplete(item), the onToggleComplete of a card
toggleComplete(item) ==
  /\ UNCHANGED offstage
  /\ ~showAddModal
  /\ LET write == [fn |-> "updateDoc", by |-> "toggleComplete", id |-> item.id,
                    item |-> <<item>>, data |-> toggleData(item), undefined |-> {}]
     IN /\ lastWrite' = <<write>>
        /\ IF Refused(write) THEN UNCHANGED hookVars ELSE Delivered(write)
  /\ UNCHANGED <<form, editingItem, showAddModal>>

\* handleDelete(item), the onDelete of a card, confirmed: deleteItem(item.id)
handleDelete(item) ==
  /\ UNCHANGED offstage
  /\ ~showAddModal
  /\ LET write == [fn |-> "deleteDoc", by |-> "deleteItem", id |-> item.id,
                    item |-> <<item>>, data |-> <<>>, undefined |-> {}]
     IN lastWrite' = <<write>> /\ Delivered(write)
  /\ UNCHANGED <<form, editingItem, showAddModal>>

FormNext ==
  \/ FirstSnapshot
  \/ \E id \in (1 .. MaxFormDocs) \ {docs[k].id : k \in 1 .. Len(docs)}, data \in FormSeeds :
       StoreAdd(id, data)
  \/ \E i \in 1 .. Len(docs) : StoreDelete(docs[i].id)
  \/ OnSnapshotError
  \/ openAddModal
  \/ \E item \in ShownItems : openEditModal(item)
  \/ closeAddModal
  \/ \E field \in DOMAIN FieldValues : \E value \in FieldValues[field] : setField(field, value)
  \/ handleSubmit
  \/ \E item \in ShownItems : toggleComplete(item)
  \/ \E item \in ShownItems : handleDelete(item)

FormSpec == Init /\ [][FormNext]_vars

(***************************************************************************)
(* Calls of getDatesBetween with dates around the ends of months and       *)
(* years.                                                                  *)
(***************************************************************************)
\* years the arguments are taken from, starting with FirstYear
DateYears == 2
FirstYear == 2023
Years == FirstYear .. FirstYear + DateYears - 1

\* <<month, day>> on both sides of a month end
MonthEnds ==
  {<<1, 1>>, <<1, 2>>, <<2, 27>>, <<2, 28>>, <<2, 29>>, <<3, 1>>, <<4, 30>>, <<5, 1>>,
   <<12, 30>>, <<12, 31>>}

\* the string YYYY-MM-DD of a date input
Ymd(y, m, d) ==
  NumberToString(y) \o <<Hyphen>> \o padStart2(NumberToString(m))
    \o <<Hyphen>> \o padStart2(NumberToString(d))

\* the values of the date inputs: the days of MonthEnds that exist
BoundaryDates ==
  {Ymd(y, md[1], md[2]) : y \in Years, md \in MonthEnds}
    \ {Ymd(y, 2, 29) : y \in {x \in Years : x % 4 # 0}}

\* the number of the day in the proleptic Gregorian calendar, by the
\* era / day-of-era count (no table of month lengths)
DayNumber(y, m, d) ==
  LET yy == IF m <= 2 THEN y - 1 ELSE y
      era == yy \div 400
      yoe == yy - era * 400
      mp == (m + 9) % 12
      doy == (153 * mp + 2) \div 5 + d - 1
      doe == yoe * 365 + yoe \div 4 - yoe \div 100 + doy
  IN era * 146097 + doe

YearOf(str) == ParseInt(SubSeq(str, 1, 4))
MonthOf(str) == ParseInt(SubSeq(str, 6, 7))
DateOf(str) == ParseInt(SubSeq(str, 9, 10))
DayNumberOf(str) == DayNumber(YearOf(str), MonthOf(str), DateOf(str))

\* the longest range, in days, that a call is explored for
MaxSpan == 70

\* the arguments explored: any order of the two dates, end at most MaxSpan
\* days after start
Explored(start, end) == DayNumberOf(end) - DayNumberOf(start) <= MaxSpan

formVars == <<form, editingItem, showAddModal, lastWrite, submitVars>>

DatesInit ==
  /\ Mounted
  /\ EnrichMounted
  /\ startDate \in BoundaryDates
  /\ endDate \in BoundaryDates
  /\ Explored(startDate, endDate)
  /\ dates = <<>>

\* getDatesBetween(startDate, endDate) is called and returns
getDatesBetweenCall ==
  /\ dates = <<>>
  /\ dates' = <<getDatesBetween(startDate, endDate)>>
  /\ UNCHANGED <<startDate, endDate>>
  /\ UNCHANGED <<hookVars, formVars, enrichVars>>

\* the forEach over the array is done; the next record is expanded
getDatesBetweenNext(nextStart, nextEnd) ==
  /\ dates # <<>>
  /\ Explored(nextStart, nextEnd)
  /\ startDate' = nextStart
  /\ endDate' = nextEnd
  /\ dates' = <<>>
  /\ UNCHANGED <<hookVars, formVars, enrichVars>>

DatesNext ==
  \/ getDatesBetweenCall
  \/ \E nextStart \in BoundaryDates, nextEnd \in BoundaryDates :
       getDatesBetweenNext(nextStart, nextEnd)

DatesSpec == DatesInit /\ [][DatesNext]_vars

(***************************************************************************)
(* usePlaceEnrichment: the scheduling effect, the reset effect, the timers *)
(* and the calls of enrichItem, with apiKey set and enabled true.          *)
(***************************************************************************)
\* const STALE_THRESHOLD_MS = 7 * 24 * 60 * 60 * 1000
STALE_THRESHOLD_MS == 7 * 24 * 60 * 60 * 1000

\* the clock is moved on by TickMs at a time, MaxTicks times at most
TickMs == 8 * 24 * 60 * 60 * 1000
MaxTicks == 1

\* pending timers per item id, and lookups counted per item id
MaxTimers == 2
MaxStarted == 2

\* "https://maps.app.goo.gl/x", shortened to "g.co/x"
SomeLink == <<103, 46, 99, 111, 47, 120>>

\* the items that are added to the collection: place items with a link for
\* every id, and for id 1 also an item without link and a flight
EnrichSeeds(id) ==
  {[id |-> id, type |-> "activity", googleMapsLink |-> SomeLink]}
    \cup IF id = 1
         THEN {[id |-> id, type |-> "activity", googleMapsLink |-> EmptyStr],
               [id |-> id, type |-> "flight", googleMapsLink |-> SomeLink]}
         ELSE {}

\* needsEnrichment(item), read at the time `now`
needsEnrichment(item) ==
  IF item.googleMapsLink = EmptyStr THEN FALSE
  ELSE IF item.type = "flight" THEN FALSE
  ELSE IF ~Has(item, "placeDescription") THEN TRUE
  ELSE IF Has(item, "placeDataFetchedAt") THEN now - item.placeDataFetchedAt > STALE_THRESHOLD_MS
  ELSE FALSE

\* items.filter(item => needsEnrichment(item) && !processedRef.current.has(item.id))
itemsToEnrich(its) ==
  {id \in DOMAIN its : needsEnrichment(its[id]) /\ id \notin processedRef}

\* the condition of the reset effect:
\* processedIds.length > 0 && matchingCount < processedIds.length / 2
resetDue(its) ==
  /\ Cardinality(processedRef) > 0
  /\ 2 * Cardinality(processedRef \cap DOMAIN its) < Cardinality(processedRef)

\* the effects that run when the items prop has changed to `its`: the
\* scheduling effect sets one timer per item to enrich, then the reset
\* effect clears processedRef when most of its ids have left the list
ItemsChanged(its) ==
  /\ placeItems' = its
  /\ \A id \in itemsToEnrich(its) : timers[id] < MaxTimers
  /\ timers' = [id \in EnrichIds |-> IF id \in itemsToEnrich(its) THEN timers[id] + 1 ELSE timers[id]]
  /\ processedRef' = IF resetDue(its) THEN {} ELSE processedRef
  /\ started' = IF resetDue(its) THEN [id \in EnrichIds |-> 0] ELSE started
  /\ failed' = IF resetDue(its) THEN {} ELSE failed

\* the function `its` without the id
Without(its, id) == [k \in DOMAIN its \ {id} |-> its[k]]

\* a member of the trip adds an item, which gets an id not used before; the
\* snapshot changes the items prop
EnrichAdd(id, item) ==
  /\ id = created + 1
  /\ created' = id
  /\ ItemsChanged((id :> item) @@ placeItems)
  /\ lastStarted' = <<>>
  /\ UNCHANGED <<enrichingRef, running, now>>
  /\ UNCHANGED <<hookVars, formVars, dateVars>>

\* a member of the trip deletes an item; the snapshot changes the items prop
EnrichRemove(id) ==
  /\ id \in DOMAIN placeItems
  /\ ItemsChanged(Without(placeItems, id))
  /\ lastStarted' = <<>>
  /\ UNCHANGED <<created, enrichingRef, running, now>>
  /\ UNCHANGED <<hookVars, formVars, dateVars>>

\* a member of the trip changes a field of an item that the enrichment does
\* not read (notes, completed, ...); the snapshot gives a new items array
EnrichTouch(id) ==
  /\ id \in DOMAIN placeItems
  /\ ItemsChanged(placeItems)
  /\ lastStarted' = <<>>
  /\ UNCHANGED <<created, enrichingRef, running, now>>
  /\ UNCHANGED <<hookVars, formVars, dateVars>>

\* slip: the guard looks at the processed set only
enrichGuard_ProcessedOnly(id) == id \in processedRef

\* if (enrichingRef.current.has(item.id) || processedRef.current.has(item.id)) return
enrichGuard(id) == id \in enrichingRef \/ id \in processedRef

\* a timer of the scheduling effect fires and calls enrichItem(item): past
\* the guard the id is marked as enriching and the lookup is started
TimerFires(id) ==
  /\ timers[id] > 0
  /\ timers' = [timers EXCEPT ![id] = @ - 1]
  /\ IF enrichGuard(id)
     THEN /\ lastStarted' = <<>>
          /\ UNCHANGED <<enrichingRef, running, started>>
     ELSE /\ started[id] < MaxStarted
          /\ enrichingRef' = enrichingRef \cup {id}
          /\ running' = [running EXCEPT ![id].lookup = @ + 1]
          /\ started' = [started EXCEPT ![id] = @ + 1]
          /\ lastStarted' = <<id>>
  /\ UNCHANGED <<placeItems, created, processedRef, now, failed>>
  /\ UNCHANGED <<hookVars, formVars, dateVars>>

\* the finally block of enrichItem
Finally(id, refs) ==
  [enriching |-> refs.enriching \ {id}, processed |-> refs.processed \cup {id}]

\* the lookup of enrichItem throws: catch, then finally
LookupFails(id) ==
  /\ running[id].lookup > 0
  /\ running' = [running EXCEPT ![id].lookup = @ - 1]
  /\ enrichingRef' = Finally(id, [enriching |-> enrichingRef, processed |-> processedRef]).enriching
  /\ processedRef' = Finally(id, [enriching |-> enrichingRef, processed |-> processedRef]).processed
  /\ failed' = failed \cup {id}
  /\ lastStarted' = <<>>
  /\ UNCHANGED <<placeItems, created, timers, now, started>>
  /\ UNCHANGED <<hookVars, formVars, dateVars>>

\* updateData of enrichItem: with place details placeDescription and
\* placeDataFetchedAt, without them placeDataFetchedAt alone
updateData(found) ==
  IF found THEN [placeDescription |-> "details", placeDataFetchedAt |-> now]
  ELSE [placeDataFetchedAt |-> now]

\* the lookup of enrichItem returns, with place details or without, and
\* onUpdateItem is called: the update of a document that is there changes the
\* items prop before the promise is settled; the update of a document that
\* is gone throws, and catch and finally run
LookupReturns(id, found) ==
  /\ running[id].lookup > 0
  /\ lastStarted' = <<>>
  /\ IF id \in DOMAIN placeItems
     THEN /\ running' = [running EXCEPT ![id].lookup = @ - 1, ![id].update = @ + 1]
          /\ ItemsChanged([placeItems EXCEPT ![id] = updateData(found) @@ @])
          /\ UNCHANGED enrichingRef
     ELSE /\ running' = [running EXCEPT ![id].lookup = @ - 1]
          /\ enrichingRef' = enrichingRef \ {id}
          /\ processedRef' = processedRef \cup {id}
          /\ failed' = failed \cup {id}
          /\ UNCHANGED <<placeItems, timers, started>>
  /\ UNCHANGED <<created, now>>
  /\ UNCHANGED <<hookVars, formVars, dateVars>>

\* the promise of onUpdateItem is settled: finally
UpdateSettles(id) ==
  /\ running[id].update > 0
  /\ running' = [running EXCEPT ![id].update = @ - 1]
  /\ enrichingRef' = Finally(id, [enriching |-> enrichingRef, processed |-> processedRef]).enriching
  /\ processedRef' = Finally(id, [enriching |-> enrichingRef, processed |-> processedRef]).processed
  /\ lastStarted' = <<>>
  /\ UNCHANGED <<placeItems, created, timers, now, started, failed>>
  /\ UNCHANGED <<hookVars, formVars, dateVars>>

\* time passes
Tick ==
  /\ now + TickMs <= 1 + MaxTicks * TickMs
  /\ now' = now + TickMs
  /\ lastStarted' = <<>>
  /\ UNCHANGED <<placeItems, created, enrichingRef, processedRef, timers, running, started,
                 failed>>
  /\ UNCHANGED <<hookVars, formVars, dateVars>>

EnrichNext ==
  \/ \E id \in EnrichIds : \E item \in EnrichSeeds(id) : EnrichAdd(id, item)
  \/ \E id \in EnrichIds : EnrichRemove(id)
  \/ \E id \in EnrichIds : EnrichTouch(id)
  \/ \E id \in EnrichIds : TimerFires(id)
  \/ \E id \in EnrichIds : LookupFails(id)
  \/ \E id \in EnrichIds : \E found \in BOOLEAN : LookupReturns(id, found)
  \/ \E id \in EnrichIds : UpdateSettles(id)
  \/ Tick

EnrichSpec == Init /\ [][EnrichNext]_vars

(***************************************************************************)
(* handleSubmit of ItineraryManager, step by step: the call up to its      *)
(* first await, the place lookup settling, the add or update settling.     *)
(* The user goes on using the modal while the call awaits.                 *)
(***************************************************************************)
\* the values the user gives to the fields while a save is followed
SubmitFieldValues ==
  [location |-> FormLocations, category |-> {"lodging"}, endDay |-> {Day(2)}]

\* the links the user pastes: none holds coordinates
FormLinks == {EmptyStr, SomeLink}

\* formatPlaceDetailsForStorage(placeDetails), "cafe"
SomeDescription == <<99, 97, 102, 101>>

\* what enrichItemWithPlaceDetails settles with: place details, null, or a
\* rejection
PlaceOutcomes == {"found", "none", "error"}
\* the coordinates of the place details
PlaceLat == 32
PlaceLng == 34

\* handleGoogleMapsLinkChange(url) for a url extractCoordsFromGoogleMapsUrl
\* finds no coordinates in
handleGoogleMapsLinkChange(url) ==
  /\ UNCHANGED offstage
  /\ showAddModal
  /\ form.type = "activity"
  /\ form.googleMapsLink # url
  /\ form' = [form EXCEPT !.googleMapsLink = url]
  /\ lastWrite' = <<>>
  /\ UNCHANGED <<editingItem, showAddModal>>
  /\ UNCHANGED hookVars

\* GOOGLE_MAPS_API_KEY && itemData.googleMapsLink && itemData.type !== 'flight',
\* with the key configured
wantsPlaceDetails(itemData) ==
  /\ Has(itemData.data, "googleMapsLink")
  /\ itemData.data.googleMapsLink # EmptyStr
  /\ itemData.data.type # "flight"

\* itemData after the place lookup has settled
withPlaceDetails(itemData, outcome) ==
  LET d == itemData.data
      added ==
        CASE outcome = "found" ->
               [placeDescription |-> SomeDescription, placeDataFetchedAt |-> now]
                 @@ When(~Has(d, "lat") \/ d.lat = 0, [lat |-> PlaceLat])
                 @@ When(~Has(d, "lng") \/ d.lng = 0, [lng |-> PlaceLng])
          [] outcome = "none" -> [placeDataFetchedAt |-> now]
          [] outcome = "error" -> <<>>
  IN [data |-> added @@ d, undefined |-> itemData.undefined]

\* updateItem(editingItem.id, itemData) or addItem(itemData) is called: the
\* store takes or refuses the write, the listener is called with what was
\* written, and the call awaits the promise
callsSave(itemData, editing, place) ==
  \E id \in IF editing # <<>> THEN {editing[1].id}
            ELSE (1 .. MaxFormDocs) \ {docs[k].id : k \in 1 .. Len(docs)} :
    \E denied \in BOOLEAN :
      LET write == [fn |-> IF editing # <<>> THEN "updateDoc" ELSE "addDoc",
                    by |-> "handleSubmit", id |-> id, item |-> editing,
                    data |-> itemData.data, undefined |-> itemData.undefined]
          ok == ~Refused(write) /\ ~denied
      IN /\ lastWrite' = <<write>>
         /\ submission' = <<[at |-> "save", itemData |-> itemData, editing |-> editing,
                             place |-> place, ok |-> ok]>>
         /\ IF ok THEN Delivered(write) ELSE UNCHANGED hookVars

\* handleSubmit is called and runs to its first await
handleSubmitCall ==
  /\ showAddModal
  /\ ~isSubmitting
  /\ UNCHANGED <<dateVars, enrichVars>>
  /\ UNCHANGED <<form, editingItem, showAddModal>>
  /\ IF ~isValid(form)
     THEN /\ lastSubmit' = <<[result |-> "invalid", place |-> "skipped"]>>
          /\ lastWrite' = <<>>
          /\ UNCHANGED <<isSubmitting, submission>>
          /\ UNCHANGED hookVars
     ELSE /\ isSubmitting' = TRUE
          /\ lastSubmit' = <<[result |-> "pending", place |-> "skipped"]>>
          /\ LET itemData == toItemData(form, editingItem)
             IN IF wantsPlaceDetails(itemData)
                THEN /\ submission' = <<[at |-> "enrich", itemData |-> itemData,
                                         editing |-> editingItem, place |-> "skipped",
                                         ok |-> FALSE]>>
                     /\ lastWrite' = <<>>
                     /\ UNCHANGED hookVars
                ELSE callsSave(itemData, editingItem, "skipped")

\* enrichItemWithPlaceDetails settles; the call goes on to the add or update
placeLookupSettles(outcome) ==
  /\ submission # <<>>
  /\ submission[1].at = "enrich"
  /\ callsSave(withPlaceDetails(submission[1].itemData, outcome), submission[1].editing,
               outcome)
  /\ UNCHANGED <<isSubmitting, lastSubmit>>
  /\ UNCHANGED <<form, editingItem, showAddModal>>
  /\ UNCHANGED <<dateVars, enrichVars>>

\* slip: the modal closed whether or not the save went through
saveSettles_ClosesAlways ==
  /\ submission # <<>>
  /\ submission[1].at = "save"
  /\ showAddModal' = FALSE
  /\ form' = INITIAL_FORM_STATE
  /\ editingItem' = <<>>
  /\ isSubmitting' = FALSE
  /\ submission' = <<>>
  /\ lastSubmit' = <<[result |-> IF submission[1].ok THEN "saved" ELSE "failed",
                      place |-> submission[1].place]>>
  /\ lastWrite' = <<>>
  /\ UNCHANGED hookVars
  /\ UNCHANGED <<dateVars, enrichVars>>

\* the promise of updateItem or addItem settles: closeAddModal() when it is
\* fulfilled, the alert when it is rejected, setIsSubmitting(false) in both
saveSettles ==
  /\ submission # <<>>
  /\ submission[1].at = "save"
  /\ IF submission[1].ok
     THEN /\ showAddModal' = FALSE
          /\ form' = INITIAL_FORM_STATE
          /\ editingItem' = <<>>
     ELSE UNCHANGED <<form, editingItem, showAddModal>>
  /\ isSubmitting' = FALSE
  /\ submission' = <<>>
  /\ lastSubmit' = <<[result |-> IF submission[1].ok THEN "saved" ELSE "failed",
                      place |-> submission[1].place]>>
  /\ lastWrite' = <<>>
  /\ UNCHANGED hookVars
  /\ UNCHANGED <<dateVars, enrichVars>>

SubmitNext ==
  \/ FirstSnapshot
  \/ \E id \in (1 .. MaxFormDocs) \ {docs[k].id : k \in 1 .. Len(docs)}, data \in FormSeeds :
       StoreAdd(id, data)
  \/ \E i \in 1 .. Len(docs) : StoreDelete(docs[i].id)
  \/ openAddModal
  \/ \E item \in ShownItems : openEditModal(item)
  \/ closeAddModal
  \/ \E field \in DOMAIN SubmitFieldValues : \E value \in SubmitFieldValues[field] :
       setField(field, value)
  \/ \E url \in FormLinks : handleGoogleMapsLinkChange(url)
  \/ handleSubmitCall
  \/ \E outcome \in PlaceOutcomes : placeLookupSettles(outcome)
  \/ saveSettles

SubmitSpec == Init /\ [][SubmitNext]_vars

(***************************************************************************)
(* Properties.                                                             *)
(***************************************************************************)
\* position of a date in the calendar
CalendarIndex(date) == CHOOSE n \in 1 .. Len(Calendar) : Calendar[n] = date

\* the display items expansion emits for the record with this id
EmittedFor(id) == SelectSeq(expandLodgingItems(items), LAMBDA d : d.id = id)

StartsStay(r) == IsLodging(r) /\ Has(r, "endDay") /\ StrLess(r.day, r.endDay)

\* C1: a lodging record whose endDay is later than its day, spanning N >= 2
\* calendar days, is expanded into exactly N display items, exactly one on each
\* calendar day from day to endDay; the one on day is the check-in and is not
\* virtual, the one on endDay is the check-out and is virtual, every day in
\* between is staying and virtual (none when N = 2).
C1_MultiDayExpansion ==
  \A k \in 1 .. Len(items) :
    LET r == items[k]
        out == EmittedFor(r.id)
        first == CalendarIndex(r.day)
        last == CalendarIndex(r.endDay)
        N == last - first + 1
    IN StartsStay(r) =>
         /\ N >= 2
         /\ Len(out) = N
         /\ \A c \in first .. last :
              /\ Cardinality({n \in 1 .. Len(out) : out[n].displayDay = Calendar[c]}) = 1
              /\ \A n \in 1 .. Len(out) :
                   out[n].displayDay = Calendar[c] =>
                     /\ Has(out[n], "lodgingPhase")
                     /\ out[n].lodgingPhase =
                          (IF c = first THEN "check-in" ELSE IF c = last THEN "check-out" ELSE "staying")
                     /\ out[n].isVirtual = (c # first)
         /\ N = 2 => \A n \in 1 .. Len(out) : ~PhaseIs(out[n], "staying")

\* a stay of three days and a stay of two days have both been expanded
C1_Witness ==
  /\ \E k \in 1 .. Len(items) :
       StartsStay(items[k]) /\ CalendarIndex(items[k].endDay) - CalendarIndex(items[k].day) = 2
         /\ \E e \in 1 .. Len(itemsByDay) : \E n \in 1 .. Len(itemsByDay[e].list) :
              itemsByDay[e].list[n].id = items[k].id /\ PhaseIs(itemsByDay[e].list[n], "staying")
  /\ \E k \in 1 .. Len(items) :
       StartsStay(items[k]) /\ CalendarIndex(items[k].endDay) - CalendarIndex(items[k].day) = 1

SingleDayRecord(r) == ~IsLodging(r) \/ ~Has(r, "endDay") \/ r.endDay = r.day

\* C2: a record that is not lodging, or a lodging record whose endDay is absent
\* or equal to its day, is expanded into exactly one display item, on its day,
\* not virtual and without a lodgingPhase.
C2_SingleDayExpansion ==
  \A k \in 1 .. Len(items) :
    LET r == items[k]
        out == EmittedFor(r.id)
    IN SingleDayRecord(r) =>
         /\ Len(out) = 1
         /\ out[1].displayDay = r.day
         /\ out[1].isVirtual = FALSE
         /\ ~Has(out[1], "lodgingPhase")

\* a record that is not lodging and carries an endDay other than its day has
\* been expanded and shown
C2_Witness ==
  \E k \in 1 .. Len(items) :
    /\ ~IsLodging(items[k]) /\ Has(items[k], "endDay") /\ items[k].endDay # items[k].day
    /\ Len(itemsByDay) = 1 /\ Len(itemsByDay[1].list) = 1

\* the day lists before the within-day sort, in expansion order
Grouped == groupReduce(<<>>, expandLodgingItems(items))

\* the check-in time the sort of this day worked with
DayCheckInTime(day) == checkInTimeOf(ListOf(Grouped, day))

\* the bucket of the ordering rule, in its priority order
Bucket(item, checkInTime) ==
  CASE PhaseIs(item, "check-out") -> 0
    [] ~PhaseIs(item, "check-out") /\ item.type = "flight"
         /\ StrLess(LandingTime(item), checkInTime) -> 1
    [] OTHER ->
         IF PhaseIs(item, "check-in") THEN 2 ELSE IF PhaseIs(item, "staying") THEN 4 ELSE 3

\* arrivalTime-else-time for a flight, time for any other item
EffectiveTime(item) ==
  IF item.type = "flight" /\ Has(item, "arrivalTime") /\ item.arrivalTime # EmptyStr
  THEN item.arrivalTime
  ELSE item.time

\* the pair (bucket, effective time) of a does not come after that of b
KeyLeq(a, b, checkInTime) ==
  \/ Bucket(a, checkInTime) < Bucket(b, checkInTime)
  \/ /\ Bucket(a, checkInTime) = Bucket(b, checkInTime)
     /\ ~StrLess(EffectiveTime(b), EffectiveTime(a))

\* the scenario day [Activity 14:00, CheckOut, Flight arriving 08:00, CheckIn 15:00]
ScenarioDay ==
  LET stay(from, to, time) ==
        [id |-> 0, type |-> "activity", category |-> "lodging", day |-> from, endDay |-> to,
         time |-> time, completed |-> FALSE]
      activity == [id |-> 1, type |-> "activity", category |-> "food", day |-> Day(1),
                   time |-> Clock(14, 0), completed |-> FALSE]
      flight == [id |-> 2, type |-> "flight", day |-> Day(1), time |-> Clock(6, 0),
                 arrivalTime |-> Clock(8, 0), completed |-> FALSE]
  IN <<expandItem(activity)[1], expandItem(stay(Day(0), Day(1), EmptyStr))[2],
       expandItem(flight)[1], expandItem(stay(Day(1), Day(2), Clock(15, 0)))[1]>>

\* C3: every day's list is in ascending order of (bucket, effective time),
\* bucket 0 check-out, 1 flight landing strictly before the day's checkInTime,
\* 2 check-in, 4 staying, 3 anything else; and the scenario day comes out as
\* CheckOut, Flight, CheckIn, Activity.
C3_DayOrderedByBucketAndTime ==
  /\ \A e \in 1 .. Len(itemsByDay) :
       LET list == itemsByDay[e].list
           checkInTime == DayCheckInTime(itemsByDay[e].day)
       IN \A p \in 1 .. Len(list) : \A q \in p + 1 .. Len(list) :
            KeyLeq(list[p], list[q], checkInTime)
  /\ sortDay(ScenarioDay) = <<ScenarioDay[2], ScenarioDay[3], ScenarioDay[4], ScenarioDay[1]>>

\* a day whose two items are in different buckets and were put in the other
\* order by the sort
C3_Witness ==
  \E e \in 1 .. Len(itemsByDay) :
    LET list == itemsByDay[e].list
        before == ListOf(Grouped, itemsByDay[e].day)
    IN /\ Len(list) = 2
       /\ list = <<before[2], before[1]>>
       /\ Bucket(list[1], DayCheckInTime(itemsByDay[e].day))
            < Bucket(list[2], DayCheckInTime(itemsByDay[e].day))

\* C4: in every day's list every check-out item precedes every check-in item
\* and every check-in item precedes every staying item, whatever the time,
\* arrivalTime and type of the items.
C4_PhaseOrder ==
  \A e \in 1 .. Len(itemsByDay) :
    LET list == itemsByDay[e].list
    IN \A p \in 1 .. Len(list) : \A q \in 1 .. Len(list) :
         /\ (PhaseIs(list[p], "check-out") /\ PhaseIs(list[q], "check-in")) => p < q
         /\ (PhaseIs(list[p], "check-in") /\ PhaseIs(list[q], "staying")) => p < q

HasCheckIn(list) == \E n \in 1 .. Len(list) : PhaseIs(list[n], "check-in")

\* the day's check-in item: the first one of the day in expansion order
DayCheckInItem(day) ==
  LET before == ListOf(Grouped, day)
      found == {n \in 1 .. Len(before) : PhaseIs(before[n], "check-in")}
  IN before[CHOOSE n \in found : \A o \in found : n <= o]

HasArrivalTime(item) == Has(item, "arrivalTime") /\ item.arrivalTime # EmptyStr

\* C5 as stated: on a day that has a check-in item, a flight whose arrivalTime
\* is strictly earlier than the check-in item's time is ordered before that
\* item, and a flight whose arrivalTime is equal to or later than it is ordered
\* after it (flights and check-in items as the form writes them: a flight is
\* no part of a stay, a stay is an activity).
C5_FlightAroundCheckIn_AsStated ==
  \A e \in 1 .. Len(itemsByDay) :
    LET list == itemsByDay[e].list
    IN HasCheckIn(list) =>
         LET c == DayCheckInItem(itemsByDay[e].day)
         IN \A p \in 1 .. Len(list) : \A q \in 1 .. Len(list) :
              (/\ list[p].type = "flight" /\ HasArrivalTime(list[p])
               /\ ~Has(list[p], "lodgingPhase")
               /\ c.type = "activity"
               /\ list[q].id = c.id)
              => IF StrLess(list[p].arrivalTime, c.time) THEN p < q ELSE p > q

\* C5 as amended: when the day's check-in item has a non-empty time, a flight
\* that has no lodgingPhase and whose arrivalTime is strictly earlier than that
\* time is ordered before the check-in item if that item is not typed flight,
\* and a flight that has no lodgingPhase and whose arrivalTime is equal to or
\* later than that time is ordered after the check-in item.
C5_FlightAroundCheckIn ==
  \A e \in 1 .. Len(itemsByDay) :
    LET list == itemsByDay[e].list
    IN HasCheckIn(list) =>
         LET c == DayCheckInItem(itemsByDay[e].day)
         IN \A p \in 1 .. Len(list) : \A q \in 1 .. Len(list) :
              (/\ list[p].type = "flight" /\ HasArrivalTime(list[p])
               /\ ~Has(list[p], "lodgingPhase")
               /\ c.time # EmptyStr
               /\ list[q].id = c.id)
              => IF StrLess(list[p].arrivalTime, c.time)
                 THEN c.type # "flight" => p < q
                 ELSE p > q

\* a flight arriving at the very time of the day's check-in is shown after the
\* check-in item, although its record comes first in items
C5_Witness ==
  \E e \in 1 .. Len(itemsByDay) :
    LET list == itemsByDay[e].list
    IN /\ Len(list) = 2
       /\ PhaseIs(list[1], "check-in") /\ list[1].time # EmptyStr
       /\ list[2].type = "flight" /\ ~Has(list[2], "lodgingPhase")
       /\ HasArrivalTime(list[2]) /\ list[2].arrivalTime = list[1].time
       /\ items[1].id = list[2].id

\* C6: on a day that has no check-in item no flight is in the early-flight
\* bucket: flights and regular activities are one bucket, in ascending order of
\* effective time.
C6_NoCheckInNoEarlyFlight ==
  \A e \in 1 .. Len(itemsByDay) :
    LET list == itemsByDay[e].list
    IN ~HasCheckIn(list) =>
         \A p \in 1 .. Len(list) : \A q \in p + 1 .. Len(list) :
           (~Has(list[p], "lodgingPhase") /\ ~Has(list[q], "lodgingPhase"))
           => ~StrLess(EffectiveTime(list[q]), EffectiveTime(list[p]))

\* C7 as stated: on a day that has a check-in item the checkInTime of the sort
\* is that item's time field, also when it is empty, and then no flight is in
\* bucket 1 (flights and check-in items as the form writes them).
C7_CheckInTimeIsItemTime_AsStated ==
  \A e \in 1 .. Len(itemsByDay) :
    LET list == itemsByDay[e].list
    IN (/\ HasCheckIn(list)
        /\ \A n \in 1 .. Len(list) : list[n].type = "flight" => ~Has(list[n], "lodgingPhase"))
       => LET c == DayCheckInItem(itemsByDay[e].day)
          IN \A p \in 1 .. Len(list) : \A q \in p + 1 .. Len(list) :
               KeyLeq(list[p], list[q], c.time)

\* C7 as amended: on a day that has a check-in item the checkInTime of the
\* sort is that item's time field when it is not empty and 23:59 when it is
\* empty; with an empty time every flight that is not a check-out item and
\* lands before 23:59 is in bucket 1, before every check-in item that is not
\* such a flight.
C7_CheckInTimeIsItemTime ==
  \A e \in 1 .. Len(itemsByDay) :
    LET list == itemsByDay[e].list
    IN HasCheckIn(list) =>
         LET c == DayCheckInItem(itemsByDay[e].day)
             used == IF c.time # EmptyStr THEN c.time ELSE Clock(23, 59)
         IN /\ DayCheckInTime(itemsByDay[e].day) = used
            /\ \A p \in 1 .. Len(list) : \A q \in p + 1 .. Len(list) :
                 KeyLeq(list[p], list[q], used)
            /\ c.time = EmptyStr =>
                 \A p \in 1 .. Len(list) : \A q \in 1 .. Len(list) :
                   (/\ list[p].type = "flight" /\ ~PhaseIs(list[p], "check-out")
                    /\ StrLess(LandingTime(list[p]), Clock(23, 59))
                    /\ PhaseIs(list[q], "check-in") /\ list[q].type # "flight")
                   => p < q

\* a check-in item with an empty time is shown after a flight of its day
C7_Witness ==
  \E e \in 1 .. Len(itemsByDay) :
    LET list == itemsByDay[e].list
    IN /\ Len(list) = 2
       /\ list[1].type = "flight" /\ ~Has(list[1], "lodgingPhase")
       /\ PhaseIs(list[2], "check-in") /\ list[2].time = EmptyStr /\ list[2].type = "activity"
       /\ items[1].id = list[2].id

Count(seq, x) == Cardinality({n \in 1 .. Len(seq) : seq[n] = x})

\* the day lists of itemsByDay one after the other
RECURSIVE Flatten(_)
Flatten(grouped) ==
  IF grouped = <<>> THEN <<>> ELSE Head(grouped).list \o Flatten(Tail(grouped))

\* C8: grouping and sorting keep the expanded display items as they are: each
\* one is in the list of its displayDay and in no other list, and all the lists
\* together hold exactly the expanded items, each as often as expansion
\* produced it.
C8_GroupingIsPartition ==
  LET expanded == expandLodgingItems(items)
      all == Flatten(itemsByDay)
  IN /\ Len(all) = Len(expanded)
     /\ \A n \in 1 .. Len(all) : Count(expanded, all[n]) = Count(all, all[n])
     /\ \A n \in 1 .. Len(expanded) :
          /\ Count(all, expanded[n]) = Count(expanded, expanded[n])
          /\ \A e \in 1 .. Len(itemsByDay) :
               Count(itemsByDay[e].list, expanded[n]) =
                 (IF itemsByDay[e].day = expanded[n].displayDay
                  THEN Count(expanded, expanded[n]) ELSE 0)

\* two stays share a day and differ on others, and the sort has reordered the
\* shared day
C8_Witness ==
  /\ Len(itemsByDay) = 3
  /\ \E e \in 1 .. Len(itemsByDay) :
       /\ Len(itemsByDay[e].list) = 2
       /\ itemsByDay[e].list # ListOf(Grouped, itemsByDay[e].day)

\* C9: the keys of itemsByDay are the distinct displayDay values of the
\* expanded items, each once and none with an empty list; sortedDays lists
\* exactly these keys, each once, in ascending order.
C9_KeysAndSortedDays ==
  LET expanded == expandLodgingItems(items)
      shown == {expanded[n].displayDay : n \in 1 .. Len(expanded)}
  IN /\ KeySet(itemsByDay) = shown
     /\ Len(itemsByDay) = Cardinality(shown)
     /\ \A e \in 1 .. Len(itemsByDay) : itemsByDay[e].list # <<>>
     /\ {sortedDays[n] : n \in 1 .. Len(sortedDays)} = shown
     /\ Len(sortedDays) = Cardinality(shown)
     /\ \A n \in 1 .. Len(sortedDays) - 1 : StrLess(sortedDays[n], sortedDays[n + 1])

\* a stay is shown on its two days; the first day of the trip has no item and
\* is no key
C9_Witness ==
  /\ sortedDays = <<Day(1), Day(2)>>
  /\ Len(itemsByDay) = 2
  /\ Day(0) \notin KeySet(itemsByDay)

\* position of a display item in the expanded sequence
ExpandedIndex(d) ==
  LET expanded == expandLodgingItems(items)
  IN CHOOSE n \in 1 .. Len(expanded) : expanded[n] = d

\* position of a record in items
ItemIndex(id) == CHOOSE k \in 1 .. Len(items) : items[k].id = id

\* C10: two display items of a day with the same bucket and the same effective
\* time are in the order they had in the expanded sequence, which is the order
\* of their records in items, and items is in ascending order of (day, time).
C10_StableDayOrder ==
  /\ \A e \in 1 .. Len(itemsByDay) :
       LET list == itemsByDay[e].list
           checkInTime == DayCheckInTime(itemsByDay[e].day)
       IN \A p \in 1 .. Len(list) : \A q \in p + 1 .. Len(list) :
            (/\ Bucket(list[p], checkInTime) = Bucket(list[q], checkInTime)
             /\ EffectiveTime(list[p]) = EffectiveTime(list[q]))
            => /\ ExpandedIndex(list[p]) < ExpandedIndex(list[q])
               /\ ItemIndex(list[p].id) < ItemIndex(list[q].id)
  /\ \A k \in 1 .. Len(items) - 1 :
       \/ StrLess(items[k].day, items[k + 1].day)
       \/ items[k].day = items[k + 1].day /\ ~StrLess(items[k + 1].time, items[k].time)

\* two flights land at the same time; the one that departs first is in front
\* although its document is the later one
C10_Witness ==
  \E e \in 1 .. Len(itemsByDay) :
    LET list == itemsByDay[e].list
    IN /\ Len(list) = 2
       /\ list[1].type = "flight" /\ list[2].type = "flight"
       /\ EffectiveTime(list[1]) = EffectiveTime(list[2])
       /\ StrLess(list[1].time, list[2].time)
       /\ list[1].id > list[2].id

MemoryOfItems == recordsHeap(items)
FirstRun == memoRun(MemoryOfItems)
\* the run once more, in the memory the first run has left
SecondRun == memoRun([objects |-> FirstRun.objects, items |-> FirstRun.items])

\* C12: the projection run a second time on the items list, in the memory the
\* first run has left behind, gives the output of the first run, which is the
\* one the hook exposes: the same days in the same order and in each day the
\* same display items, field by field, in the same order.
C12_Idempotent ==
  /\ Deref(SecondRun.objects, SecondRun.itemsByDay) = Deref(FirstRun.objects, FirstRun.itemsByDay)
  /\ computeSortedDays(SecondRun.itemsByDay) = computeSortedDays(FirstRun.itemsByDay)
  /\ Deref(FirstRun.objects, FirstRun.itemsByDay) = itemsByDay
  /\ computeSortedDays(FirstRun.itemsByDay) = sortedDays

\* the projection of two stays that share a day: three days, five display
\* items, one day list reordered by the sort
C12_Witness ==
  /\ Len(items) = 2
  /\ Len(sortedDays) = 3
  /\ Len(FirstRun.objects) = 7
  /\ \E e \in 1 .. Len(itemsByDay) :
       /\ Len(itemsByDay[e].list) = 2
       /\ itemsByDay[e].list # ListOf(Grouped, itemsByDay[e].day)

\* (record id, displayDay, lodgingPhase) of a display item
CardOf(d) == <<d.id, d.displayDay, IF Has(d, "lodgingPhase") THEN d.lodgingPhase ELSE "none">>

\* what the list view shows for a grouped object: the days in ascending order
\* and the cards of each day in the order of its list
CardsByDay(grouped) ==
  LET days == computeSortedDays(grouped)
  IN [days |-> days,
      lists |-> [n \in 1 .. Len(days) |->
                   LET list == ListOf(grouped, days[n])
                   IN [k \in 1 .. Len(list) |-> CardOf(list[k])]]]

\* the projection of a snapshot, as shown
ShownFor(snapshotDocs) == CardsByDay(computeItemsByDay(projectItems(snapshotDocs)))

\* the documents of the collection delivered in the order p
Reordered(p) == [k \in 1 .. Len(docs) |-> docs[p[k]]]

DistinctDayAndTime ==
  \A i \in 1 .. Len(docs) : \A j \in i + 1 .. Len(docs) :
    docs[i].data.day # docs[j].data.day \/ docs[i].data.time # docs[j].data.time

InvertedStay(r) ==
  IsLodging(r) /\ Has(r, "endDay") /\ r.endDay # EmptyStr /\ StrLess(r.endDay, r.day)

\* C14: a lodging record whose endDay is present and earlier than its day has
\* an empty date enumeration and no display item: it is in no day list of
\* itemsByDay, and when no other record puts a display item on its day, that
\* day is not in sortedDays.
C14_InvertedStayDropped ==
  \A k \in 1 .. Len(items) :
    LET r == items[k]
        expanded == expandLodgingItems(items)
    IN InvertedStay(r) =>
         /\ getDatesBetween(r.day, r.endDay) = <<>>
         /\ EmittedFor(r.id) = <<>>
         /\ \A e \in 1 .. Len(itemsByDay) : \A n \in 1 .. Len(itemsByDay[e].list) :
              itemsByDay[e].list[n].id # r.id
         /\ (\A n \in 1 .. Len(expanded) : expanded[n].displayDay # r.day)
              => \A n \in 1 .. Len(sortedDays) : sortedDays[n] # r.day

\* a stay from the last day back to an earlier one is in items next to a
\* record that is shown: the day of the stay is missing from sortedDays
C14_Witness ==
  /\ Len(items) = 2
  /\ sortedDays # <<>>
  /\ \E k \in 1 .. Len(items) :
       /\ InvertedStay(items[k])
       /\ \A n \in 1 .. Len(sortedDays) : sortedDays[n] # items[k].day

\* the addresses of the display items a run has put in its day lists, list
\* after list
RECURSIVE ShownAddresses(_)
ShownAddresses(grouped) ==
  IF grouped = <<>> THEN <<>> ELSE Head(grouped).list \o ShownAddresses(Tail(grouped))

\* C15: the run of the projection leaves its input as it was: the items array
\* holds the same record objects in the same order and every record object has
\* the field values it had; no object of a day list is a record object of
\* items, each display item is an object of its own, built by the run; and the
\* lists of the run are the itemsByDay of the hook.
C15_InputNotMutated ==
  LET before == MemoryOfItems
      shown == ShownAddresses(FirstRun.itemsByDay)
  IN /\ FirstRun.items = before.items
     /\ \A a \in 1 .. Len(before.objects) : FirstRun.objects[a] = before.objects[a]
     /\ [k \in 1 .. Len(FirstRun.items) |-> FirstRun.objects[FirstRun.items[k]]] = items
     /\ \A n \in 1 .. Len(shown) :
          /\ \A k \in 1 .. Len(before.items) : shown[n] # before.items[k]
          /\ \A m \in 1 .. Len(shown) : shown[m] = shown[n] => m = n
     /\ Deref(FirstRun.objects, FirstRun.itemsByDay) = itemsByDay

\* a record shown once as it is and a stay shown on each of its days: the
\* display item of the single-day record and the check-in item of the stay
\* differ from their records by the derived fields only
C15_Witness ==
  /\ Len(items) = 2
  /\ \E e \in 1 .. Len(itemsByDay) : \E n \in 1 .. Len(itemsByDay[e].list) :
       /\ ~Has(itemsByDay[e].list[n], "lodgingPhase")
       /\ ~itemsByDay[e].list[n].isVirtual
  /\ \E e \in 1 .. Len(itemsByDay) : \E n \in 1 .. Len(itemsByDay[e].list) :
       /\ PhaseIs(itemsByDay[e].list[n], "check-in")
       /\ ~itemsByDay[e].list[n].isVirtual
  /\ Len(FirstRun.objects) > Len(items) + 2

\* the documents of the collection with the completed flags set to `flags`
WithCompleted(flags) ==
  [k \in 1 .. Len(docs) |->
     [id |-> docs[k].id, data |-> [docs[k].data EXCEPT !.completed = flags[k]]]]

\* C16: the same records with any other completed values give the same
\* sortedDays and for each day the same sequence of (record id, displayDay,
\* lodgingPhase) as the records of the collection.
C16_CompletedDoesNotOrder ==
  \A flags \in [1 .. Len(docs) -> BOOLEAN] :
    /\ ShownFor(WithCompleted(flags)) = CardsByDay(itemsByDay)
    /\ computeSortedDays(computeItemsByDay(projectItems(WithCompleted(flags)))) = sortedDays

\* two items of one day tie in bucket and effective time, so that nothing but
\* their place in items orders them
C16_Witness ==
  /\ Len(docs) = 2
  /\ \E e \in 1 .. Len(itemsByDay) :
       LET list == itemsByDay[e].list
           checkInTime == DayCheckInTime(itemsByDay[e].day)
       IN /\ Len(list) = 2
          /\ Bucket(list[1], checkInTime) = Bucket(list[2], checkInTime)
          /\ EffectiveTime(list[1]) = EffectiveTime(list[2])
          /\ list[1].id # list[2].id

(***************************************************************************)
(* C17: what the hook exposes after a snapshot                             *)
(***************************************************************************)
DerivedFields == {"displayDay", "lodgingPhase", "isVirtual"}

\* the item is the document: its id, and its fields with their values
WrapsDoc(item, docSnap) ==
  /\ item.id = docSnap.id
  /\ DOMAIN item \ (DerivedFields \cup {"id"}) = DOMAIN docSnap.data
  /\ \A field \in DOMAIN docSnap.data : item[field] = docSnap.data[field]

\* C17: whatever snapshots were delivered before, items, itemsByDay and
\* sortedDays are the projection of the snapshot delivered last (docs): every
\* item and every display item is a document of that snapshot with that
\* snapshot's field values, every document of it is an item, and the days are
\* the days of the display items
C17_LatestSnapshotOnly ==
  /\ items = projectItems(docs)
  /\ itemsByDay = computeItemsByDay(items)
  /\ sortedDays = computeSortedDays(itemsByDay)
  /\ Len(items) = Len(docs)
  /\ \A n \in 1 .. Len(items) : \E k \in 1 .. Len(docs) : WrapsDoc(items[n], docs[k])
  /\ \A k \in 1 .. Len(docs) : \E n \in 1 .. Len(items) : WrapsDoc(items[n], docs[k])
  /\ \A d \in ShownItems : \E k \in 1 .. Len(docs) : WrapsDoc(d, docs[k])
  /\ {sortedDays[i] : i \in 1 .. Len(sortedDays)} = {d.displayDay : d \in ShownItems}

\* a stay shown on several days has just been marked completed, and the
\* snapshot that followed shows it completed on every day
C17_Witness ==
  /\ lastWrite # <<>>
  /\ lastWrite[1].by = "toggleComplete"
  /\ lastWrite[1].data.completed
  /\ listening
  /\ Cardinality(ShownItems) >= 2
  /\ \A d \in ShownItems : d.completed /\ d.id = lastWrite[1].id

(***************************************************************************)
(* C18: the key of a card                                                  *)
(***************************************************************************)
\* key={`${item.id}-${item.displayDay}`}
CardKey(item) == NumberToString(item.id) \o <<Hyphen>> \o item.displayDay

AllShown == Flatten(itemsByDay)

\* C18: the documents of a snapshot have pairwise distinct ids, and then no
\* two display items of the projection have the same record id and the same
\* displayDay, and no two cards get the same key
C18_UniqueIdAndDisplayDay ==
  \A m, n \in 1 .. Len(AllShown) :
    m # n =>
      /\ ~(AllShown[m].id = AllShown[n].id /\ AllShown[m].displayDay = AllShown[n].displayDay)
      /\ CardKey(AllShown[m]) # CardKey(AllShown[n])

\* one record shown on two days, next to another record shown on one of them
C18_Witness ==
  \E m, n, o \in 1 .. Len(AllShown) :
    /\ AllShown[m].id = AllShown[n].id
    /\ AllShown[m].displayDay # AllShown[n].displayDay
    /\ AllShown[o].id # AllShown[m].id
    /\ AllShown[o].displayDay = AllShown[m].displayDay

(***************************************************************************)
(* C19: isVirtual and lodgingPhase against the record                      *)
(***************************************************************************)
\* the data of the document a display item was made from
RecordOf(d) == docs[CHOOSE k \in 1 .. Len(docs) : docs[k].id = d.id].data

\* C19: a display item is virtual exactly when its displayDay is not the day
\* of its record; a display item with a lodgingPhase lies between the day and
\* the endDay of its record, a check-in on the day, a check-out on the endDay
C19_VirtualAndPhase ==
  \A n \in 1 .. Len(AllShown) :
    LET d == AllShown[n]
        record == RecordOf(d)
    IN /\ d.isVirtual <=> d.displayDay # record.day
       /\ Has(d, "lodgingPhase") =>
            /\ Has(record, "endDay")
            /\ ~StrLess(d.displayDay, record.day)
            /\ ~StrLess(record.endDay, d.displayDay)
            /\ d.lodgingPhase = "check-in" => d.displayDay = record.day
            /\ d.lodgingPhase = "check-out" => d.displayDay = record.endDay

\* a stay shown with its check-in, a night in between and its check-out
C19_Witness ==
  \E m, n, o \in 1 .. Len(AllShown) :
    /\ AllShown[m].id = AllShown[n].id /\ AllShown[n].id = AllShown[o].id
    /\ PhaseIs(AllShown[m], "check-in") /\ ~AllShown[m].isVirtual
    /\ PhaseIs(AllShown[n], "staying") /\ AllShown[n].isVirtual
    /\ PhaseIs(AllShown[o], "check-out") /\ AllShown[o].isVirtual

(***************************************************************************)
(* C20: what the list view writes                                          *)
(***************************************************************************)
\* the names of the properties a write hands to the store
WrittenFields(write) == DOMAIN write.data \cup write.undefined

\* no write holds a derived field, and a write of the form goes to the id of
\* the item being edited
WritesNoDerivedField ==
  lastWrite # <<>> =>
    /\ WrittenFields(lastWrite[1]) \cap DerivedFields = {}
    /\ lastWrite[1].item # <<>> => lastWrite[1].id = lastWrite[1].item[1].id

\* a step that opens the form for an item of the list fills in the day of
\* the item's record
EditOpensOnRecordDay ==
  (~showAddModal /\ showAddModal' /\ editingItem' # <<>>) =>
    /\ editingItem'[1] \in ShownItems
    /\ form'.day = RecordOf(editingItem'[1]).day
    /\ editingItem'[1].isVirtual => form'.day # editingItem'[1].displayDay

\* a step that submits the form of an edit updates the document with the id
\* of the item being edited, with the day of the form
SubmitTargetsRecord ==
  (lastWrite' # <<>> /\ lastWrite'[1].by = "handleSubmit" /\ editingItem # <<>>) =>
    /\ lastWrite'[1].fn = "updateDoc"
    /\ lastWrite'[1].id = editingItem[1].id
    /\ lastWrite'[1].data.day = form.day

\* C20: every write of the list view (toggleComplete, updateItem and addItem
\* with toItemData, deleteItem), also for a virtual display item, holds none
\* of displayDay, lodgingPhase, isVirtual; an edit opened from a display item
\* starts from the day of its record and is written to the record's id
C20_DerivedFieldsNotPersisted ==
  /\ []WritesNoDerivedField
  /\ [][EditOpensOnRecordDay /\ SubmitTargetsRecord]_vars

\* the edit of a virtual display item has been saved with the day of its
\* record
C20_Witness ==
  /\ lastWrite # <<>>
  /\ lastWrite[1].by = "handleSubmit"
  /\ lastWrite[1].fn = "updateDoc"
  /\ lastWrite[1].item[1].isVirtual
  /\ lastWrite[1].data.day = lastWrite[1].item[1].day
  /\ lastWrite[1].data.day # lastWrite[1].item[1].displayDay
  /\ ~showAddModal

(***************************************************************************)
(* C21: check-out first, staying last                                      *)
(***************************************************************************)
\* in every day list the check-out items come before all other items
CheckOutFirst ==
  \A e \in 1 .. Len(itemsByDay) :
    LET list == itemsByDay[e].list
    IN \A p, q \in 1 .. Len(list) :
         (PhaseIs(list[p], "check-out") /\ ~PhaseIs(list[q], "check-out")) => p < q

\* in every day list the staying items come after all other items
StayingLast ==
  \A e \in 1 .. Len(itemsByDay) :
    LET list == itemsByDay[e].list
    IN \A p, q \in 1 .. Len(list) :
         (PhaseIs(list[p], "staying") /\ ~PhaseIs(list[q], "staying")) => q < p

\* C21: in every day's list every check-out item precedes every item that is
\* not a check-out and every staying item follows every item that is not
\* staying, whatever the type, category, time and arrivalTime of the records
C21_CheckOutFirstStayingLast == CheckOutFirst /\ StayingLast

(***************************************************************************)
(* C22: endDay and category in the item data of the form                   *)
(***************************************************************************)
FormItemData == toItemData(form, editingItem)

\* C22: whatever the fields of the form were set to before, the item data of
\* the form has an endDay (the form's) exactly for an activity of category
\* lodging with a non-empty endDay; for every other activity endDay is set
\* to undefined; for a flight neither endDay nor category is set; and the
\* form writes this item data
C22_EndDayOnlyForLodging ==
  /\ Has(FormItemData.data, "endDay") <=>
       (form.type = "activity" /\ form.category = "lodging" /\ form.endDay # EmptyStr)
  /\ Has(FormItemData.data, "endDay") => FormItemData.data.endDay = form.endDay
  /\ (form.type = "activity" /\ form.category # "lodging") =>
       "endDay" \in FormItemData.undefined
  /\ form.type = "flight" =>
       {"endDay", "category"} \cap (DOMAIN FormItemData.data \cup FormItemData.undefined) = {}
  /\ (lastWrite # <<>> /\ lastWrite[1].by = "handleSubmit") =>
       /\ Has(lastWrite[1].data, "endDay") =>
            (lastWrite[1].data.type = "activity" /\ lastWrite[1].data.category = "lodging"
               /\ lastWrite[1].data.endDay # EmptyStr)
       /\ lastWrite[1].data.type = "flight" =>
            {"endDay", "category"} \cap WrittenFields(lastWrite[1]) = {}

\* the form holds an endDay entered for a lodging, and then the category was
\* changed or the type was switched to flight
C22_Witness ==
  /\ showAddModal
  /\ form.endDay # EmptyStr
  /\ \/ form.type = "activity" /\ form.category = "sightseeing"
     \/ form.type = "flight" /\ form.category = "lodging"
  /\ ~Has(FormItemData.data, "endDay")

(***************************************************************************)
(* C23: getDatesBetween against the calendar                               *)
(***************************************************************************)
\* the lengths of the months of a common year
MonthLengths == <<31, 28, 31, 30, 31, 30, 31, 31, 30, 31, 30, 31>>

\* a string YYYY-MM-DD that names a day of the calendar
IsCalendarDate(str) ==
  /\ Len(str) = 10
  /\ str[5] = Hyphen /\ str[8] = Hyphen
  /\ \A k \in {1, 2, 3, 4, 6, 7, 9, 10} : str[k] \in 48 .. 57
  /\ MonthOf(str) \in 1 .. 12
  /\ DateOf(str) >= 1
  /\ \/ DateOf(str) <= MonthLengths[MonthOf(str)]
     \/ /\ MonthOf(str) = 2 /\ DateOf(str) = 29
        /\ YearOf(str) % 4 = 0
        /\ (YearOf(str) % 100 # 0 \/ YearOf(str) % 400 = 0)

C24_FormSavesNoInvertedStay ==
  (lastWrite # <<>> /\ lastWrite[1].by = "handleSubmit") =>
    ~(/\ IsLodging(lastWrite[1].data)
      /\ Has(lastWrite[1].data, "endDay")
      /\ StrLess(lastWrite[1].data.endDay, lastWrite[1].data.day))

(***************************************************************************)
(* C25: the check-in time of a day with several check-ins                  *)
(***************************************************************************)
\* the check-in items of a day list
CheckInsOf(list) == {list[p] : p \in {q \in 1 .. Len(list) : PhaseIs(list[q], "check-in")}}

\* C25: on a day whose check-in items are two or more and all have a
\* non-empty time, the checkInTime the sort of the day works with is the
\* earliest of these times
C25_EarliestCheckInTime ==
  \A e \in 1 .. Len(itemsByDay) :
    LET checkIns == CheckInsOf(itemsByDay[e].list)
        checkInTime == DayCheckInTime(itemsByDay[e].day)
    IN (Cardinality(checkIns) >= 2 /\ \A c \in checkIns : c.time # EmptyStr) =>
         /\ \E c \in checkIns : c.time = checkInTime
         /\ \A c \in checkIns : ~StrLess(c.time, checkInTime)

\* two check-ins on a day, the later one in the document that comes first
C25_Witness ==
  \E e \in 1 .. Len(itemsByDay) :
    \E c, d \in CheckInsOf(itemsByDay[e].list) :
      /\ c.id < d.id
      /\ StrLess(d.time, c.time)
      /\ d.time # EmptyStr
      /\ DayCheckInTime(itemsByDay[e].day) = d.time

(***************************************************************************)
(* C26: lodging of a single day                                            *)
(***************************************************************************)
\* a lodging record with no endDay or with endDay equal to day
SingleDayLodging(item) ==
  IsLodging(item) /\ (~Has(item, "endDay") \/ item.endDay = item.day)

\* an activity that is no part of a stay
RegularActivity(item) == item.type = "activity" /\ ~Has(item, "lodgingPhase")

\* the display item at position p of the list has no lodgingPhase and stands
\* among the regular activities of the list by its time
OrderedAsRegular(list, p) ==
  /\ ~Has(list[p], "lodgingPhase")
  /\ \A q \in 1 .. Len(list) :
       RegularActivity(list[q]) =>
         /\ p < q => ~StrLess(list[q].time, list[p].time)
         /\ q < p => ~StrLess(list[p].time, list[q].time)

\* on a day whose lodging items are all of a single day the sort works with
\* the check-in time 23:59
SentinelWithoutStay ==
  \A e \in 1 .. Len(itemsByDay) :
    LET list == itemsByDay[e].list
    IN (\A q \in 1 .. Len(list) : IsLodging(list[q]) => SingleDayLodging(list[q])) =>
         DayCheckInTime(itemsByDay[e].day) = Clock(23, 59)

\* C26: a lodging record of a single day has no lodgingPhase, is ordered
\* among the regular activities of its day by its time, and is no check-in:
\* a day whose only lodging is of a single day has the check-in time 23:59
C26_SingleDayLodgingIsRegular ==
  /\ \A e \in 1 .. Len(itemsByDay) :
       LET list == itemsByDay[e].list
       IN \A p \in 1 .. Len(list) : SingleDayLodging(list[p]) => OrderedAsRegular(list, p)
  /\ SentinelWithoutStay

\* the same for the lodging records of type activity
SingleDayActivityLodgingIsRegular ==
  /\ \A e \in 1 .. Len(itemsByDay) :
       LET list == itemsByDay[e].list
       IN \A p \in 1 .. Len(list) :
            (SingleDayLodging(list[p]) /\ list[p].type = "activity") => OrderedAsRegular(list, p)
  /\ SentinelWithoutStay

(***************************************************************************)
(* C27: one enrichment per item at a time, one lookup per item between     *)
(* resets                                                                  *)
(***************************************************************************)
\* no item id has two enrichments running, none has had two lookups started
\* since processedRef was last cleared, and every id whose lookup or update
\* failed since then is in processedRef
OneEnrichmentPerItem ==
  /\ \A id \in EnrichIds : running[id].lookup + running[id].update <= 1
  /\ \A id \in EnrichIds : started[id] <= 1
  /\ enrichingRef = {id \in EnrichIds : running[id].lookup + running[id].update > 0}
  /\ failed \subseteq processedRef

\* no step starts a lookup for an id that is enriching, is processed or has
\* failed since processedRef was last cleared
NoRetryOfFailed ==
  \A id \in EnrichIds :
    lastStarted' = <<id>> => (id \notin failed /\ id \notin enrichingRef /\ id \notin processedRef)

\* C27: whatever the order of items changes, timer firings and lookup
\* completions, no two enrichments of one item id run at the same time, at
\* most one lookup per item id is started between two resets of the processed
\* set, and an item whose lookup failed is marked processed and is not looked
\* up again before a reset
C27_OneLookupPerItem == []OneEnrichmentPerItem /\ [][NoRetryOfFailed]_vars

\* the lookup of an item has failed while a timer set by a later run of the
\* scheduling effect is still pending for it
C27_Witness ==
  \E id \in failed :
    /\ id \in DOMAIN placeItems
    /\ needsEnrichment(placeItems[id])
    /\ timers[id] >= 1
    /\ started[id] = 1
    /\ id \in processedRef

(***************************************************************************)
(* C28: no retry of an item stamped without place data                     *)
(***************************************************************************)
\* the item carries a stamp of a lookup that found no place data, and the
\* stamp is not older than the threshold
StampedWithoutData(item) ==
  /\ ~Has(item, "placeDescription")
  /\ Has(item, "placeDataFetchedAt")
  /\ now - item.placeDataFetchedAt <= STALE_THRESHOLD_MS

\* C28: after a lookup has found no place data and the item was stamped with
\* placeDataFetchedAt, no lookup is started for the item while the stamp is
\* not older than seven days, whatever items changes follow
C28_NoRetryWhileStampFresh ==
  \A id \in DOMAIN placeItems :
    lastStarted = <<id>> => ~StampedWithoutData(placeItems[id])

(***************************************************************************)
(* C29: isLoading and error of useItineraryItems                           *)
(***************************************************************************)
\* isLoading is true exactly as long as neither a snapshot nor an error has
\* been delivered
StillLoading ==
  /\ isLoading <=> (isFirstLoad /\ listening)
  /\ isLoading => error = "null"

\* isLoading becomes false only with the first snapshot or with an error
LoadingEnds ==
  isLoading /\ ~isLoading' =>
    \/ isFirstLoad /\ ~isFirstLoad' /\ error' = error
    \/ error = "null" /\ error' = "Failed to load itinerary"

\* isLoading does not return to true
LoadingStaysOff == ~isLoading => ~isLoading'

\* a subscription error sets the message and leaves items as it was
ErrorKeepsItems ==
  error' # error =>
    /\ error' = "Failed to load itinerary"
    /\ ~isLoading'
    /\ items' = items
    /\ itemsByDay' = itemsByDay
    /\ sortedDays' = sortedDays

\* C29: isLoading starts true, becomes false only when the first snapshot or
\* a subscription error has been delivered and never returns to true; a
\* subscription error sets error to 'Failed to load itinerary' and leaves
\* items as it was before the error
C29_LoadingAndError ==
  /\ []StillLoading
  /\ [][LoadingEnds /\ LoadingStaysOff /\ ErrorKeepsItems]_vars

\* an error has been delivered after items were loaded
C29_Witness ==
  /\ error = "Failed to load itinerary"
  /\ ~isLoading
  /\ ~isFirstLoad
  /\ Len(items) >= 2

(***************************************************************************)
(* C30: saving from the add/edit modal                                     *)
(***************************************************************************)
\* what the user sees of the page and the call in flight
pageVars == <<hookVars, form, editingItem, showAddModal, isSubmitting, submission>>

\* a step of handleSubmit, as opposed to a step of the user or of the store
SubmitStep == lastSubmit' # lastSubmit \/ submission' # submission

\* a call with an invalid form changes nothing, and a call that awaits was
\* made with a valid form
InvalidDoesNothing ==
  /\ SubmitStep /\ ~isSubmitting /\ ~isValid(form) => UNCHANGED pageVars
  /\ submission' # <<>> =>
       LET d == submission'[1].itemData.data IN d.day # EmptyStr /\ d.location # EmptyStr

\* when the place lookup is rejected the add or update is called with the
\* item data of the form
LookupFailureStillSaves ==
  submission # <<>> /\ submission[1].at = "enrich" /\ submission' # submission =>
    /\ submission' # <<>>
    /\ submission'[1].at = "save"
    /\ lastWrite' # <<>>
    /\ lastWrite'[1].fn = IF submission[1].editing # <<>> THEN "updateDoc" ELSE "addDoc"
    /\ submission'[1].place = "error" =>
         /\ lastWrite'[1].data = submission[1].itemData.data
         /\ lastWrite'[1].undefined = submission[1].itemData.undefined

\* handleSubmit closes the modal and resets the form only when the add or
\* update has succeeded, and then it does both
ClosesOnlyAfterSuccess ==
  SubmitStep =>
    IF submission # <<>> /\ submission[1].at = "save" /\ submission[1].ok
    THEN ~showAddModal' /\ form' = INITIAL_FORM_STATE /\ editingItem' = <<>>
    ELSE UNCHANGED <<form, editingItem, showAddModal>>

\* a failed add or update leaves the modal and the form as they are
FailureKeepsForm ==
  SubmitStep /\ lastSubmit' = <<[result |-> "failed", place |-> lastSubmit'[1].place]>> =>
    /\ submission # <<>> /\ ~submission[1].ok
    /\ UNCHANGED <<form, editingItem, showAddModal>>

\* isSubmitting is true exactly while a call awaits
SubmittingWhileAwaiting == isSubmitting <=> submission # <<>>

\* a call that has ended has said how
EndedCall ==
  submission = <<>> /\ lastSubmit # <<>> => lastSubmit[1].result \in {"invalid", "saved", "failed"}

\* C30: handleSubmit does nothing when the form is invalid; a failure of the
\* place enrichment does not prevent the save; the modal is closed and the
\* form reset only after the add or update has succeeded, and a failed add or
\* update leaves the modal open with the form unchanged; isSubmitting is
\* false again whenever handleSubmit has finished
C30_SubmitOutcomes ==
  /\ [](SubmittingWhileAwaiting /\ EndedCall)
  /\ [][/\ InvalidDoesNothing
        /\ LookupFailureStillSaves
        /\ ClosesOnlyAfterSuccess
        /\ FailureKeepsForm]_vars

\* a save has gone through although the place lookup was rejected
C30_Witness ==
  /\ lastSubmit = <<[result |-> "saved", place |-> "error"]>>
  /\ ~isSubmitting
  /\ ~showAddModal
  /\ form = INITIAL_FORM_STATE
  /\ Len(docs) = 1
  /\ Has(docs[1].data, "googleMapsLink")
  /\ docs[1].data.googleMapsLink = SomeLink
  /\ ~Has(docs[1].data, "placeDataFetchedAt")

=============================================================================
